---- MODULE Spec2Model ----
(***************************************************************************)
(* Gas accounting of one transaction (core/src/ledger/gas.rs): the         *)
(* transaction meter, the validity-predicate meters spawned from it and    *)
(* the aggregator that merges the gas of parallel validity predicates.     *)
(*                                                                         *)
(* u64 is scaled down to 0..U64_MAX; checked arithmetic fails above        *)
(* U64_MAX and unchecked arithmetic wraps modulo U64_MAX + 1 (or panics    *)
(* when the build has overflow checks).                                    *)
(*                                                                         *)
(* Spec is one transaction: transaction-level charges, then up to three    *)
(* predicates that are spawned, charged, set and merged in any order, then *)
(* the charge-back, over a coarse grid of amounts.  SpecCharge is the      *)
(* transaction meter and one predicate meter under every amount.           *)
(*                                                                         *)
(* The multitoken native validity predicate                                *)
(* (crates/namada/src/ledger/native_vp/multitoken.rs): SpecMultitoken is   *)
(* a transaction that writes up to three storage keys, then validate_tx    *)
(* on its changed keys, with the gas meter of the predicate charged by     *)
(* every storage read.  token::Amount is scaled down to 0..AMOUNT_MAX.     *)
(*                                                                         *)
(* The gas limit and the fee of a wrapper transaction                      *)
(* (core/src/types/transaction/wrapper.rs): SpecWrapper is a wrapper made  *)
(* from a raw limit or from a multiplier, then serialized, asked for its   *)
(* refund and for its fee.  GAS_LIMIT_RESOLUTION is scaled down with u64.  *)
(***************************************************************************)
EXTENDS Integers, Sequences, FiniteSets, TLC

\* ---------------------------------------------------------------- bounds

\* The largest value of the (scaled-down) u64.
U64_MAX == 31

\* The validity predicates one transaction triggers.
VpIds == {1, 2, 3}

\* Gas amounts handed to consume.
Amounts == {0, 15, U64_MAX}

\* Transaction sizes handed to add_tx_size_gas.
SizeLens == {0, 3, U64_MAX}

\* Code lengths handed to add_compiling_gas and add_wasm_load_from_storage_gas.
CodeLens == {0, 15, U64_MAX}

\* Gas limits a transaction meter is created with.
Limits == {15, U64_MAX}

\* ------------------------------------------------------- program constants

TX_SIZE_GAS_PER_BYTE == 10
COMPILE_GAS_PER_BYTE == 1
PARALLEL_GAS_DIVIDER == 10
STORAGE_ACCESS_GAS_PER_BYTE == 1

\* gas::Error
Ok == "Ok"
TransactionGasExceededError == "TransactionGasExceededError"
GasOverflow == "GasOverflow"
ConversionError == "ConversionError"
\* Not a value of gas::Error: the thread unwinds.
Panic == "Panic"

\* ------------------------------------------------------------- arithmetic

\* Option<u64>
None == [some |-> FALSE, val |-> 0]
Some(v) == [some |-> TRUE, val |-> v]

\* u64::checked_add
checked_add(a, b) == IF a + b > U64_MAX THEN None ELSE Some(a + b)

\* u64::checked_mul
checked_mul(a, b) == IF a * b > U64_MAX THEN None ELSE Some(a * b)

\* Option::unwrap_or_default
unwrap_or_default(o) == IF o.some THEN o.val ELSE 0

\* usize -> u64 try_into: usize is never wider than u64.
try_into_u64(len) == IF len > U64_MAX THEN None ELSE Some(len)

RECURSIVE SumSeq(_)
SumSeq(s) == IF s = << >> THEN 0 ELSE Head(s) + SumSeq(Tail(s))

RECURSIVE MaxSeq(_)
MaxSeq(s) == IF s = << >> THEN 0
             ELSE LET m == MaxSeq(Tail(s)) IN IF Head(s) > m THEN Head(s) ELSE m

\* An unchecked u64 `a * b` or sum whose mathematical value is v: a panic in
\* a build with overflow checks, the wrapped value otherwise.
Unchecked(v, overflow_checks) ==
    IF v <= U64_MAX THEN [res |-> Ok, val |-> v, wrapped |-> FALSE]
    ELSE IF overflow_checks THEN [res |-> Panic, val |-> 0, wrapped |-> FALSE]
    ELSE [res |-> Ok, val |-> v % (U64_MAX + 1), wrapped |-> TRUE]

\* ------------------------------------------------------------- TxGasMeter

TxGasMeter_new(tx_gas_limit) ==
    [tx_gas_limit |-> tx_gas_limit, transaction_gas |-> 0]

\* The result of a &mut self method: the meter afterwards and the value
\* returned.
\* Mutant: the addition saturates instead of failing.
TxGasMeter_consume_saturating(m, gas) ==
    LET sum == IF m.transaction_gas + gas > U64_MAX THEN U64_MAX
               ELSE m.transaction_gas + gas
        m2 == [m EXCEPT !.transaction_gas = sum] IN
    IF m2.transaction_gas > m2.tx_gas_limit
    THEN [m |-> m2, res |-> TransactionGasExceededError]
    ELSE [m |-> m2, res |-> Ok]

\* Mutant: the limit is reached at >= instead of >.
TxGasMeter_consume_ge(m, gas) ==
    LET sum == checked_add(m.transaction_gas, gas) IN
    IF ~sum.some THEN [m |-> m, res |-> GasOverflow]
    ELSE LET m2 == [m EXCEPT !.transaction_gas = sum.val] IN
         IF m2.transaction_gas >= m2.tx_gas_limit
         THEN [m |-> m2, res |-> TransactionGasExceededError]
         ELSE [m |-> m2, res |-> Ok]

\* Mutant: the limit is checked against the total before the charge.
TxGasMeter_consume_check_before(m, gas) ==
    LET sum == checked_add(m.transaction_gas, gas) IN
    IF ~sum.some THEN [m |-> m, res |-> GasOverflow]
    ELSE IF m.transaction_gas > m.tx_gas_limit
    THEN [m |-> [m EXCEPT !.transaction_gas = sum.val],
          res |-> TransactionGasExceededError]
    ELSE [m |-> [m EXCEPT !.transaction_gas = sum.val], res |-> Ok]

\* Mutant: the addition wraps instead of failing.
TxGasMeter_consume_wrapping(m, gas) ==
    LET m2 == [m EXCEPT !.transaction_gas = (m.transaction_gas + gas) % (U64_MAX + 1)] IN
    IF m2.transaction_gas > m2.tx_gas_limit
    THEN [m |-> m2, res |-> TransactionGasExceededError]
    ELSE [m |-> m2, res |-> Ok]

\* Mutant: a charge of nothing is not checked against the limit.
TxGasMeter_consume_zero_is_free(m, gas) ==
    LET sum == checked_add(m.transaction_gas, gas) IN
    IF ~sum.some THEN [m |-> m, res |-> GasOverflow]
    ELSE LET m2 == [m EXCEPT !.transaction_gas = sum.val] IN
         IF gas > 0 /\ m2.transaction_gas > m2.tx_gas_limit
         THEN [m |-> m2, res |-> TransactionGasExceededError]
         ELSE [m |-> m2, res |-> Ok]

TxGasMeter_consume(m, gas) ==
    LET sum == checked_add(m.transaction_gas, gas) IN
    IF ~sum.some THEN [m |-> m, res |-> GasOverflow]
    ELSE LET m2 == [m EXCEPT !.transaction_gas = sum.val] IN
         IF m2.transaction_gas > m2.tx_gas_limit
         THEN [m |-> m2, res |-> TransactionGasExceededError]
         ELSE [m |-> m2, res |-> Ok]

TxGasMeter_get_tx_gas(m) == m.transaction_gas

TxGasMeter_get_gas_limit(m) == m.tx_gas_limit

\* ------------------------------------------------------------- VpGasMeter

\* Mutant: the predicate meter is given what is left of the limit.
VpGasMeter_new_from_tx_meter_remaining(tx_gas_meter) ==
    [tx_gas_limit |-> IF tx_gas_meter.tx_gas_limit >= tx_gas_meter.transaction_gas
                      THEN tx_gas_meter.tx_gas_limit - tx_gas_meter.transaction_gas
                      ELSE 0,
     initial_gas |-> tx_gas_meter.transaction_gas,
     current_gas |-> 0]

VpGasMeter_new_from_tx_meter(tx_gas_meter) ==
    [tx_gas_limit |-> tx_gas_meter.tx_gas_limit,
     initial_gas |-> tx_gas_meter.transaction_gas,
     current_gas |-> 0]

\* Mutant: check-then-charge, the total is kept when the limit is exceeded.
VpGasMeter_consume_check_first(m, gas) ==
    LET sum == checked_add(m.current_gas, gas) IN
    IF ~sum.some THEN [m |-> m, res |-> GasOverflow]
    ELSE LET m2 == [m EXCEPT !.current_gas = sum.val]
             current_total == checked_add(m2.initial_gas, m2.current_gas) IN
         IF ~current_total.some THEN [m |-> m2, res |-> GasOverflow]
         ELSE IF current_total.val > m2.tx_gas_limit
         THEN [m |-> m, res |-> TransactionGasExceededError]
         ELSE [m |-> m2, res |-> Ok]

\* Mutant: the limit is checked against the predicate's own gas alone.
VpGasMeter_consume_no_initial(m, gas) ==
    LET sum == checked_add(m.current_gas, gas) IN
    IF ~sum.some THEN [m |-> m, res |-> GasOverflow]
    ELSE LET m2 == [m EXCEPT !.current_gas = sum.val]
             current_total == checked_add(m2.initial_gas, m2.current_gas) IN
         IF ~current_total.some THEN [m |-> m2, res |-> GasOverflow]
         ELSE IF m2.current_gas > m2.tx_gas_limit
         THEN [m |-> m2, res |-> TransactionGasExceededError]
         ELSE [m |-> m2, res |-> Ok]

\* Mutant: the predicate meter fails when its total reaches the limit.
VpGasMeter_consume_at_limit(m, gas) ==
    LET sum == checked_add(m.current_gas, gas) IN
    IF ~sum.some THEN [m |-> m, res |-> GasOverflow]
    ELSE LET m2 == [m EXCEPT !.current_gas = sum.val]
             current_total == checked_add(m2.initial_gas, m2.current_gas) IN
         IF ~current_total.some THEN [m |-> m2, res |-> GasOverflow]
         ELSE IF current_total.val >= m2.tx_gas_limit
         THEN [m |-> m2, res |-> TransactionGasExceededError]
         ELSE [m |-> m2, res |-> Ok]

\* Mutant: the limit is checked before the overflow of the total.
VpGasMeter_consume_limit_first(m, gas) ==
    LET sum == checked_add(m.current_gas, gas) IN
    IF ~sum.some THEN [m |-> m, res |-> GasOverflow]
    ELSE LET m2 == [m EXCEPT !.current_gas = sum.val]
             current_total == checked_add(m2.initial_gas, m2.current_gas) IN
         IF m2.initial_gas + m2.current_gas > m2.tx_gas_limit
         THEN [m |-> m2, res |-> TransactionGasExceededError]
         ELSE IF ~current_total.some THEN [m |-> m2, res |-> GasOverflow]
         ELSE [m |-> m2, res |-> Ok]

VpGasMeter_consume(m, gas) ==
    LET sum == checked_add(m.current_gas, gas) IN
    IF ~sum.some THEN [m |-> m, res |-> GasOverflow]
    ELSE LET m2 == [m EXCEPT !.current_gas = sum.val]
             current_total == checked_add(m2.initial_gas, m2.current_gas) IN
         IF ~current_total.some THEN [m |-> m2, res |-> GasOverflow]
         ELSE IF current_total.val > m2.tx_gas_limit
         THEN [m |-> m2, res |-> TransactionGasExceededError]
         ELSE [m |-> m2, res |-> Ok]

\* Mutant: the predicate meter reports its own usage on top of the baseline.
VpGasMeter_get_tx_gas_with_own(m) == m.initial_gas + m.current_gas

VpGasMeter_get_tx_gas(m) == m.initial_gas

VpGasMeter_get_gas_limit(m) == m.tx_gas_limit

\* ------------------------------------------------- GasMetering (provided)

\* Dispatch of the trait method on the implementing type.
GasMetering_consume(kind, m, gas) ==
    IF kind = "tx" THEN TxGasMeter_consume(m, gas) ELSE VpGasMeter_consume(m, gas)

GasMetering_get_tx_gas(kind, m) ==
    IF kind = "tx" THEN TxGasMeter_get_tx_gas(m) ELSE VpGasMeter_get_tx_gas(m)

GasMetering_get_gas_limit(kind, m) ==
    IF kind = "tx" THEN TxGasMeter_get_gas_limit(m) ELSE VpGasMeter_get_gas_limit(m)

\* The argument of the tracing::error! event is an unchecked product; it is
\* evaluated only when a subscriber takes the event.
add_compiling_gas(kind, m, bytes_len, overflow_checks, tracing) ==
    LET logged == Unchecked(bytes_len * COMPILE_GAS_PER_BYTE, overflow_checks)
        gas == checked_mul(bytes_len, COMPILE_GAS_PER_BYTE) IN
    IF tracing /\ logged.res = Panic THEN [m |-> m, res |-> Panic]
    ELSE IF ~gas.some THEN [m |-> m, res |-> GasOverflow]
    ELSE GasMetering_consume(kind, m, gas.val)

add_wasm_load_from_storage_gas(kind, m, bytes_len, overflow_checks, tracing) ==
    LET logged == Unchecked(bytes_len * STORAGE_ACCESS_GAS_PER_BYTE, overflow_checks)
        gas == checked_mul(bytes_len, STORAGE_ACCESS_GAS_PER_BYTE) IN
    IF tracing /\ logged.res = Panic THEN [m |-> m, res |-> Panic]
    ELSE IF ~gas.some THEN [m |-> m, res |-> GasOverflow]
    ELSE GasMetering_consume(kind, m, gas.val)

\* Mutant: the size of the transaction is charged at the rate of compiling.
TxGasMeter_add_tx_size_gas_at_compile_rate(m, len) ==
    LET bytes_len == try_into_u64(len) IN
    IF ~bytes_len.some THEN [m |-> m, res |-> ConversionError]
    ELSE LET gas == checked_mul(bytes_len.val, COMPILE_GAS_PER_BYTE) IN
         IF ~gas.some THEN [m |-> m, res |-> GasOverflow]
         ELSE TxGasMeter_consume(m, gas.val)

TxGasMeter_add_tx_size_gas(m, len) ==
    LET bytes_len == try_into_u64(len) IN
    IF ~bytes_len.some THEN [m |-> m, res |-> ConversionError]
    ELSE LET gas == checked_mul(bytes_len.val, TX_SIZE_GAS_PER_BYTE) IN
         IF ~gas.some THEN [m |-> m, res |-> GasOverflow]
         ELSE TxGasMeter_consume(m, gas.val)

\* ----------------------------------------------------------------- VpsGas

\* VpsGas::default()
VpsGas_default == [max |-> None, rest |-> << >>]

\* rest.iter().sum::<u64>() is unchecked; the division and the final
\* addition are not.  res is Ok, GasOverflow or Panic.
VpsGas_get_current_gas(v, overflow_checks) ==
    LET sum == Unchecked(SumSeq(v.rest), overflow_checks) IN
    IF sum.res = Panic THEN [res |-> Panic, val |-> 0, wrapped |-> FALSE]
    ELSE LET parallel_gas == sum.val \div PARALLEL_GAS_DIVIDER
             total == checked_add(unwrap_or_default(v.max), parallel_gas) IN
         IF total.some THEN [res |-> Ok, val |-> total.val, wrapped |-> sum.wrapped]
         ELSE [res |-> GasOverflow, val |-> 0, wrapped |-> sum.wrapped]

\* Mutant: the gas of the transaction itself is left out of the check.
VpsGas_check_limit_without_baseline(v, kind, gas_meter, overflow_checks) ==
    LET current == VpsGas_get_current_gas(v, overflow_checks) IN
    IF current.res # Ok THEN [res |-> current.res, wrapped |-> current.wrapped]
    ELSE IF current.val > GasMetering_get_gas_limit(kind, gas_meter)
    THEN [res |-> TransactionGasExceededError, wrapped |-> current.wrapped]
    ELSE [res |-> Ok, wrapped |-> current.wrapped]

\* Mutant: the limit itself is refused.
VpsGas_check_limit_at_limit(v, kind, gas_meter, overflow_checks) ==
    LET current == VpsGas_get_current_gas(v, overflow_checks) IN
    IF current.res # Ok THEN [res |-> current.res, wrapped |-> current.wrapped]
    ELSE LET total == checked_add(GasMetering_get_tx_gas(kind, gas_meter), current.val) IN
         IF ~total.some THEN [res |-> GasOverflow, wrapped |-> current.wrapped]
         ELSE IF total.val >= GasMetering_get_gas_limit(kind, gas_meter)
         THEN [res |-> TransactionGasExceededError, wrapped |-> current.wrapped]
         ELSE [res |-> Ok, wrapped |-> current.wrapped]

\* check_limit(&self, gas_meter): the value returned, and whether the sum
\* wrapped on the way.
VpsGas_check_limit(v, kind, gas_meter, overflow_checks) ==
    LET current == VpsGas_get_current_gas(v, overflow_checks) IN
    IF current.res # Ok THEN [res |-> current.res, wrapped |-> current.wrapped]
    ELSE LET total == checked_add(GasMetering_get_tx_gas(kind, gas_meter), current.val) IN
         IF ~total.some THEN [res |-> GasOverflow, wrapped |-> current.wrapped]
         ELSE IF total.val > GasMetering_get_gas_limit(kind, gas_meter)
         THEN [res |-> TransactionGasExceededError, wrapped |-> current.wrapped]
         ELSE [res |-> Ok, wrapped |-> current.wrapped]

\* Mutant: set validates first and keeps the aggregator when the check fails.
VpsGas_set_checks_first(v, vp_gas_meter, overflow_checks) ==
    LET v2 == [v EXCEPT !.max = Some(vp_gas_meter.current_gas)]
        chk == VpsGas_check_limit(v2, "vp", vp_gas_meter, overflow_checks) IN
    [v |-> IF chk.res = Ok THEN v2 ELSE v, res |-> chk.res, wrapped |-> chk.wrapped]

\* set(&mut self, vp_gas_meter): the aggregator afterwards and the value
\* returned.  The debug assertions are the caller's obligation (SetVp).
VpsGas_set(v, vp_gas_meter, overflow_checks) ==
    LET v2 == [v EXCEPT !.max = Some(vp_gas_meter.current_gas)]
        chk == VpsGas_check_limit(v2, "vp", vp_gas_meter, overflow_checks) IN
    [v |-> v2, res |-> chk.res, wrapped |-> chk.wrapped]

\* Mutant: the max of other is demoted whichever is the larger.
VpsGas_merge_keeps_own_max(v, other, tx_gas_meter, overflow_checks) ==
    LET v1 == IF ~v.max.some /\ other.max.some
              THEN [v EXCEPT !.max = other.max]
              ELSE IF v.max.some /\ other.max.some
              THEN [v EXCEPT !.rest = Append(v.rest, other.max.val)]
              ELSE v
        v2 == [v1 EXCEPT !.rest = v1.rest \o other.rest]
        other2 == [other EXCEPT !.rest = << >>]
        chk == VpsGas_check_limit(v2, "tx", tx_gas_meter, overflow_checks) IN
    [v |-> v2, other |-> other2, res |-> chk.res, wrapped |-> chk.wrapped]

\* Mutant: the max of other is taken out of it, like its rest.
VpsGas_merge_takes_other_max(v, other, tx_gas_meter, overflow_checks) ==
    LET v1 == IF ~v.max.some /\ other.max.some
              THEN [v EXCEPT !.max = other.max]
              ELSE IF v.max.some /\ other.max.some
              THEN IF v.max.val < other.max.val
                   THEN [max |-> other.max, rest |-> Append(v.rest, v.max.val)]
                   ELSE [v EXCEPT !.rest = Append(v.rest, other.max.val)]
              ELSE v
        v2 == [v1 EXCEPT !.rest = v1.rest \o other.rest]
        other2 == VpsGas_default
        chk == VpsGas_check_limit(v2, "tx", tx_gas_meter, overflow_checks) IN
    [v |-> v2, other |-> other2, res |-> chk.res, wrapped |-> chk.wrapped]

\* Mutant: the smaller max is demoted only when it is self's.
VpsGas_merge_drops_other_max(v, other, tx_gas_meter, overflow_checks) ==
    LET v1 == IF ~v.max.some /\ other.max.some
              THEN [v EXCEPT !.max = other.max]
              ELSE IF v.max.some /\ other.max.some
              THEN IF v.max.val < other.max.val
                   THEN [max |-> other.max, rest |-> Append(v.rest, v.max.val)]
                   ELSE v
              ELSE v
        v2 == [v1 EXCEPT !.rest = v1.rest \o other.rest]
        other2 == [other EXCEPT !.rest = << >>]
        chk == VpsGas_check_limit(v2, "tx", tx_gas_meter, overflow_checks) IN
    [v |-> v2, other |-> other2, res |-> chk.res, wrapped |-> chk.wrapped]

\* Mutant: the rest of other is dropped instead of appended.
VpsGas_merge_without_other_rest(v, other, tx_gas_meter, overflow_checks) ==
    LET v1 == IF ~v.max.some /\ other.max.some
              THEN [v EXCEPT !.max = other.max]
              ELSE IF v.max.some /\ other.max.some
              THEN IF v.max.val < other.max.val
                   THEN [max |-> other.max, rest |-> Append(v.rest, v.max.val)]
                   ELSE [v EXCEPT !.rest = Append(v.rest, other.max.val)]
              ELSE v
        other2 == [other EXCEPT !.rest = << >>]
        chk == VpsGas_check_limit(v1, "tx", tx_gas_meter, overflow_checks) IN
    [v |-> v1, other |-> other2, res |-> chk.res, wrapped |-> chk.wrapped]

\* merge(&mut self, other: &mut VpsGas, tx_gas_meter): both aggregators
\* afterwards and the value returned.
VpsGas_merge(v, other, tx_gas_meter, overflow_checks) ==
    LET v1 == IF ~v.max.some /\ other.max.some
              THEN [v EXCEPT !.max = other.max]
              ELSE IF v.max.some /\ other.max.some
              THEN IF v.max.val < other.max.val
                   THEN [max |-> other.max, rest |-> Append(v.rest, v.max.val)]
                   ELSE [v EXCEPT !.rest = Append(v.rest, other.max.val)]
              ELSE v
        v2 == [v1 EXCEPT !.rest = v1.rest \o other.rest]
        other2 == [other EXCEPT !.rest = << >>]
        chk == VpsGas_check_limit(v2, "tx", tx_gas_meter, overflow_checks) IN
    [v |-> v2, other |-> other2, res |-> chk.res, wrapped |-> chk.wrapped]

\* add_vps_gas(&mut self, vps_gas): the tracing::error! event unwraps
\* get_current_gas() when a subscriber takes the event.
TxGasMeter_add_vps_gas(m, vps_gas, overflow_checks, tracing) ==
    LET current == VpsGas_get_current_gas(vps_gas, overflow_checks) IN
    IF current.res = Panic THEN [m |-> m, res |-> Panic, wrapped |-> FALSE]
    ELSE IF current.res # Ok
    THEN [m |-> m, res |-> IF tracing THEN Panic ELSE current.res,
          wrapped |-> current.wrapped]
    ELSE LET r == TxGasMeter_consume(m, current.val) IN
         [m |-> r.m, res |-> r.res, wrapped |-> current.wrapped]

\* ------------------------------------------------------- multitoken keys

\* Token addresses: the native token and an IBC-origin token
\* (Address::Internal(InternalAddress::IbcToken(_))).
NAM == "nam"
IBC_TOKEN == "ibc_token"
Tokens == {NAM, IBC_TOKEN}
\* Another token that is not IBC-origin, whose address sorts before the
\* others: the transaction may write its parameters.
DAI == "dai"

IsIbcToken(token) == token = IBC_TOKEN

\* Address::Internal(InternalAddress::Ibc), the bridge, and an established
\* address; the owners of balances.
IBC == "Ibc"
ESTABLISHED == "established_1"
Owners == {"X", "Y"}

\* Storage keys by what the key functions of the token module recognise.
balance_key(token, owner) == [kind |-> "balance", token |-> token, owner |-> owner]
minted_balance_key(token) == [kind |-> "minted", token |-> token, owner |-> ""]
minter_key(token) == [kind |-> "minter", token |-> token, owner |-> ""]
parameter_key(token) == [kind |-> "parameter", token |-> token, owner |-> ""]
\* A key under #Multitoken that none of the key functions recognises.
multitoken_key(name) == [kind |-> "multitoken", token |-> name, owner |-> ""]
\* A key of another address.
foreign_key == [kind |-> "foreign", token |-> "", owner |-> ""]

is_any_token_balance_key(key) ==
    IF key.kind = "balance" THEN Some(<<key.token, key.owner>>) ELSE None

is_any_minted_balance_key(key) ==
    IF key.kind = "minted" THEN Some(key.token) ELSE None

is_any_minter_key(key) ==
    IF key.kind = "minter" THEN Some(key.token) ELSE None

is_any_token_parameter_key(key) ==
    IF key.kind = "parameter" THEN Some(key.token) ELSE None

\* key.segments.get(0) == Some(&Address::Internal(Multitoken).to_db_key())
IsUnderMultitoken(key) == key.kind # "foreign"

\* The keys in the order of Key, in which a BTreeSet<Key> is iterated: the
\* keys of a token follow each other (balance, minted, minter, parameters),
\* and an unrecognised key can come before or after all of them.
KeyOrder ==
    << multitoken_key("a"), parameter_key(DAI),
       balance_key(NAM, "X"), balance_key(NAM, "Y"), minted_balance_key(NAM),
       minter_key(NAM), parameter_key(NAM),
       balance_key(IBC_TOKEN, "X"), balance_key(IBC_TOKEN, "Y"),
       minted_balance_key(IBC_TOKEN), minter_key(IBC_TOKEN),
       foreign_key, multitoken_key("z") >>

Keys == {KeyOrder[n] : n \in 1 .. Len(KeyOrder)}

\* The keys that hold an Amount.
AmountKeys == {key \in Keys : key.kind \in {"balance", "minted"}}

\* keys_changed.iter(): the changed keys in ascending order.
Iter(keys_changed) == SelectSeq(KeyOrder, LAMBDA key : key \in keys_changed)

\* ------------------------------------------------------------ token amount

\* The largest value of the (scaled-down) token::Amount.
AMOUNT_MAX == 2

\* Amount::checked_sub, Amount::checked_add
Amount_checked_sub(a, b) == IF a >= b THEN Some(a - b) ELSE None

Amount_checked_add(a, b) == IF a + b > AMOUNT_MAX THEN None ELSE Some(a + b)

\* ------------------------------------------------------------ MultitokenVp

\* Result<bool> of the predicate.
OkTrue == "Ok(true)"
OkFalse == "Ok(false)"
\* native_vp::Error of a storage read that ran out of gas.
ErrGas == "Err(NativeVpError(gas))"
\* native_vp::Error::SimpleMessage("Overflowed in balance check")
ErrOverflowed == "Err(Overflowed in balance check)"

OkBool(b) == IF b THEN OkTrue ELSE OkFalse

\* The bytes a storage read is charged for (a key and its value, scaled).
READ_BYTES == 1

\* ctx.read_pre, ctx.read_post, ctx.pre().has_key: the read charges the
\* gas meter of the predicate and fails when the charge does.
Ctx_charge_read(gas_meter) ==
    VpGasMeter_consume(gas_meter, READ_BYTES * STORAGE_ACCESS_GAS_PER_BYTE)

\* HashMap<Address, Amount>::new()
HashMap_new == [token \in Tokens |-> None]

\* Mutant: the differences are added without the overflow check.
AddDiff_wrapping(map, token, diff) ==
    [ok |-> TRUE,
     map |-> [map EXCEPT ![token] =
                Some((unwrap_or_default(map[token]) + diff) % (AMOUNT_MAX + 1))]]

\* *map.entry(token).or_default() = that.checked_add(diff).ok_or(..)?
AddDiff(map, token, diff) ==
    LET sum == Amount_checked_add(unwrap_or_default(map[token]), diff) IN
    IF sum.some THEN [ok |-> TRUE, map |-> [map EXCEPT ![token] = Some(sum.val)]]
    ELSE [ok |-> FALSE, map |-> map]

\* The minter of an IBC-origin token is read from the post-state.
\* Mutant: a minter that cannot be read counts as no minter.
ReadMinter_unreadable_is_none(verifiers, minter, read) ==
    IF read.res # Ok THEN [res |-> OkFalse, gas |-> read.m]
    ELSE IF minter.some /\ minter.val = IBC
    THEN [res |-> OkBool(minter.val \in verifiers), gas |-> read.m]
    ELSE [res |-> OkFalse, gas |-> read.m]

\* Mutant: any recorded minter that is a verifier is accepted.
ReadMinter_any_minter(verifiers, minter, read) ==
    IF read.res # Ok THEN [res |-> ErrGas, gas |-> read.m]
    ELSE IF minter.some
    THEN [res |-> OkBool(minter.val \in verifiers), gas |-> read.m]
    ELSE [res |-> OkFalse, gas |-> read.m]

\* match self.ctx.read_post::<Address>(&minter_key)? { .. }: read is the
\* charge of the read, minter the value under the key, None when there is
\* none.
ReadMinter(verifiers, minter, read) ==
    IF read.res # Ok THEN [res |-> ErrGas, gas |-> read.m]
    ELSE IF minter.some /\ minter.val = IBC
    THEN [res |-> OkBool(minter.val \in verifiers), gas |-> read.m]
    ELSE [res |-> OkFalse, gas |-> read.m]

\* is_valid_minter(&self, token, verifiers): the value returned and the gas
\* meter afterwards.
is_valid_minter(token, verifiers, minter, gas_meter) ==
    IF IsIbcToken(token)
    THEN ReadMinter(verifiers, minter, Ctx_charge_read(gas_meter))
    ELSE [res |-> OkFalse, gas |-> gas_meter]

\* is_proposal_accepted(&self.ctx.pre(), data): the proposal is looked up
\* in the pre-state.
is_proposal_accepted(tx_data, read) ==
    IF read.res # Ok THEN [res |-> ErrGas, gas |-> read.m]
    ELSE [res |-> OkBool(tx_data = "accepted"), gas |-> read.m]

\* is_valid_parameter(&self, tx): tx_data is "none" for a transaction
\* without data, else whether the data names an accepted proposal.
is_valid_parameter(tx_data, gas_meter) ==
    IF tx_data = "none" THEN [res |-> OkFalse, gas |-> gas_meter]
    ELSE is_proposal_accepted(tx_data, Ctx_charge_read(gas_meter))

\* Mutant: one comparison of the differences, whatever their signs.
TokenBalanced_one_branch(inc_change, dec_change, inc_mint, dec_mint) ==
    Amount_checked_sub(inc_change, dec_change)
      = Amount_checked_sub(inc_mint, dec_mint)

\* Mutant: the decreases of balances are not counted.
TokenBalanced_without_decrease(inc_change, dec_change, inc_mint, dec_mint) ==
    IF inc_mint >= dec_mint
    THEN Some(inc_change) = Amount_checked_sub(inc_mint, dec_mint)
    ELSE FALSE

\* The closure of the final all(): the conservation law for one token.
TokenBalanced(inc_change, dec_change, inc_mint, dec_mint) ==
    IF inc_change >= dec_change /\ inc_mint >= dec_mint
    THEN Amount_checked_sub(inc_change, dec_change)
           = Amount_checked_sub(inc_mint, dec_mint)
    ELSE IF \/ (inc_change < dec_change /\ inc_mint >= dec_mint)
            \/ (inc_change >= dec_change /\ inc_mint < dec_mint)
    THEN FALSE
    ELSE Amount_checked_sub(dec_change, inc_change)
           = Amount_checked_sub(dec_mint, inc_mint)

\* The state of the scan: the four maps and the gas meter of the context.
\* An iteration yields res "next" when the loop goes on, else the value
\* validate_tx returns.
ScanStart(gas_meter) ==
    [inc_changes |-> HashMap_new, dec_changes |-> HashMap_new,
     inc_mints |-> HashMap_new, dec_mints |-> HashMap_new,
     gas |-> gas_meter]

\* self.ctx.read_pre(key)? or read_post(key)? returned the error.
ReadFailed(acc, read) == [res |-> ErrGas, acc |-> [acc EXCEPT !.gas = read.m]]

\* *change = change.checked_add(diff).ok_or_else(..)?
Added(acc, map, added) ==
    IF added.ok THEN [res |-> "next", acc |-> [acc EXCEPT ![map] = added.map]]
    ELSE [res |-> ErrOverflowed, acc |-> acc]

\* match post.checked_sub(pre): the difference goes to the map inc or dec.
AddDifference(acc, token, inc, dec, pre, post) ==
    IF Amount_checked_sub(post, pre).some
    THEN Added(acc, inc, AddDiff(acc[inc], token, Amount_checked_sub(post, pre).val))
    ELSE Added(acc, dec, AddDiff(acc[dec], token, Amount_checked_sub(pre, post).val))

\* After read_post of an Amount key.
ScanAmountPost(acc, key, token, inc, dec, ctx, read_post) ==
    IF read_post.res # Ok THEN ReadFailed(acc, read_post)
    ELSE AddDifference([acc EXCEPT !.gas = read_post.m], token, inc, dec,
                       ctx.pre[key], ctx.post[key])

\* After read_pre of an Amount key.
ScanAmountPre(acc, key, token, inc, dec, ctx, read_pre) ==
    IF read_pre.res # Ok THEN ReadFailed(acc, read_pre)
    ELSE ScanAmountPost(acc, key, token, inc, dec, ctx, Ctx_charge_read(read_pre.m))

\* read_pre and read_post of an Amount key, then the difference added to
\* the map inc or dec of the token.
ScanAmount(acc, key, token, inc, dec, ctx) ==
    ScanAmountPre(acc, key, token, inc, dec, ctx, Ctx_charge_read(acc.gas))

\* if !self.is_valid_minter(token, verifiers)? { return Ok(false); }
MinterChecked(acc, valid) ==
    [res |-> IF valid.res = OkTrue THEN "next" ELSE valid.res,
     acc |-> [acc EXCEPT !.gas = valid.gas]]

\* The minted branch after its Amount was read and added.
ScanMinted(s, token, ctx) ==
    IF s.res # "next" THEN s
    ELSE MinterChecked(s.acc, is_valid_minter(token, ctx.verifiers, ctx.minter, s.acc.gas))

\* Mutant: the scan goes on after a valid parameter change.
ParameterChecked_goes_on(acc, valid) ==
    [res |-> IF valid.res = OkTrue THEN "next" ELSE valid.res,
     acc |-> [acc EXCEPT !.gas = valid.gas]]

\* return self.is_valid_parameter(tx_data);
ParameterChecked(acc, valid) ==
    [res |-> valid.res, acc |-> [acc EXCEPT !.gas = valid.gas]]

\* One iteration of the loop over keys_changed.
ScanKey(acc, key, ctx) ==
    IF is_any_token_balance_key(key).some
    THEN ScanAmount(acc, key, is_any_token_balance_key(key).val[1],
                    "inc_changes", "dec_changes", ctx)
    ELSE IF is_any_minted_balance_key(key).some
    THEN ScanMinted(ScanAmount(acc, key, is_any_minted_balance_key(key).val,
                               "inc_mints", "dec_mints", ctx),
                    is_any_minted_balance_key(key).val, ctx)
    ELSE IF is_any_minter_key(key).some
    THEN MinterChecked(acc, is_valid_minter(is_any_minter_key(key).val,
                                            ctx.verifiers, ctx.minter, acc.gas))
    ELSE IF is_any_token_parameter_key(key).some
    THEN ParameterChecked(acc, is_valid_parameter(ctx.tx_data, acc.gas))
    ELSE IF IsUnderMultitoken(key)
    THEN [res |-> OkFalse, acc |-> acc]
    ELSE [res |-> "next", acc |-> acc]

\* for key in keys_changed { .. }: res is "next" when no iteration returned.
RECURSIVE ScanKeys(_, _, _)

\* The loop after the iteration of its first key.
ScanRest(s, keys, ctx) ==
    IF s.res # "next" THEN s ELSE ScanKeys(s.acc, Tail(keys), ctx)

ScanKeys(acc, keys, ctx) ==
    IF keys = << >> THEN [res |-> "next", acc |-> acc]
    ELSE ScanRest(ScanKey(acc, Head(keys), ctx), keys, ctx)

\* all_tokens: the tokens with an entry in one of the four maps.
all_tokens(acc) ==
    {token \in Tokens :
       \/ acc.inc_changes[token].some \/ acc.dec_changes[token].some
       \/ acc.inc_mints[token].some \/ acc.dec_mints[token].some}

\* all_tokens.iter().all(..)
AllBalanced(acc) ==
    \A token \in all_tokens(acc) :
      TokenBalanced(unwrap_or_default(acc.inc_changes[token]),
                    unwrap_or_default(acc.dec_changes[token]),
                    unwrap_or_default(acc.inc_mints[token]),
                    unwrap_or_default(acc.dec_mints[token]))

\* The value validate_tx returns after the loop.
AfterScan(s) ==
    [res |-> IF s.res # "next" THEN s.res ELSE OkBool(AllBalanced(s.acc)),
     gas |-> s.acc.gas]

\* validate_tx(&self, tx_data, keys_changed, verifiers): the value returned
\* and the gas meter of the context afterwards.  ctx holds the pre- and
\* post-state (pre, post, minter), tx_data and verifiers.
validate_tx(ctx, keys_changed, gas_meter) ==
    AfterScan(ScanKeys(ScanStart(gas_meter), Iter(keys_changed), ctx))

\* ------------------------------------------------ GasLimit (wrapper.rs)

\* const GAS_LIMIT_RESOLUTION: u64 = 1_000_000, scaled down with the u64:
\* an even number of which u64::MAX is no multiple.
GAS_LIMIT_RESOLUTION == 4

\* An unchecked u64 `a - b`: a panic in a build with overflow checks, the
\* wrapped difference otherwise.
UncheckedSub(a, b, overflow_checks) ==
    IF a >= b THEN [res |-> Ok, val |-> a - b, wrapped |-> FALSE]
    ELSE IF overflow_checks THEN [res |-> Panic, val |-> 0, wrapped |-> FALSE]
    ELSE [res |-> Ok, val |-> a - b + U64_MAX + 1, wrapped |-> TRUE]

\* struct GasLimit { multiplier: u64 }
GasLimit(multiplier) == [multiplier |-> multiplier]

\* impl From<u64> for GasLimit
GasLimit_from(amount) ==
    IF GAS_LIMIT_RESOLUTION * (amount \div GAS_LIMIT_RESOLUTION) < amount
    THEN GasLimit((amount \div GAS_LIMIT_RESOLUTION) + 1)
    ELSE GasLimit(amount \div GAS_LIMIT_RESOLUTION)

\* impl From<&GasLimit> for u64 and impl From<GasLimit> for u64: the
\* product is unchecked.
u64_from(limit, overflow_checks) ==
    Unchecked(limit.multiplier * GAS_LIMIT_RESOLUTION, overflow_checks)

\* The value of a function of the wrapper that did not unwind.
Returned_u64(val, wrapped) == [res |-> Ok, val |-> val, wrapped |-> wrapped]

\* The function unwound.
Unwound == [res |-> Panic, val |-> 0, wrapped |-> FALSE]

\* The three branches of refund_amount, with the raw limit raw and the
\* bound of the first comparison, raw - GAS_LIMIT_RESOLUTION.
refund_branches(raw, bound, used_gas) ==
    IF bound.res = Panic THEN Unwound
    ELSE IF used_gas < bound.val
    THEN Returned_u64(GAS_LIMIT_RESOLUTION, raw.wrapped \/ bound.wrapped)
    ELSE IF used_gas >= raw.val
    THEN Returned_u64(0, raw.wrapped \/ bound.wrapped)
    ELSE Returned_u64(raw.val - used_gas, raw.wrapped \/ bound.wrapped)

\* refund_amount after u64::from(self).
refund_of_raw(raw, used_gas, overflow_checks) ==
    IF raw.res = Panic THEN Unwound
    ELSE refund_branches(raw, UncheckedSub(raw.val, GAS_LIMIT_RESOLUTION, overflow_checks),
                         used_gas)

\* GasLimit::refund_amount(&self, used_gas): the Amount is the u64 it is
\* made from.
GasLimit_refund_amount(limit, used_gas, overflow_checks) ==
    refund_of_raw(u64_from(limit, overflow_checks), used_gas, overflow_checks)

\* WrapperTxErr
OverflowingFee == "OverflowingFee"

\* u64::checked_mul(raw, amount_per_gas_unit).map(..).ok_or_else(..)
fee_of_raw(raw, amount_per_gas_unit) ==
    IF raw.res = Panic THEN Unwound
    ELSE IF checked_mul(raw.val, amount_per_gas_unit).some
    THEN Returned_u64(checked_mul(raw.val, amount_per_gas_unit).val, raw.wrapped)
    ELSE [res |-> OverflowingFee, val |-> 0, wrapped |-> raw.wrapped]

\* WrapperTx::get_tx_fee(&self)
WrapperTx_get_tx_fee(wrapper, overflow_checks) ==
    fee_of_raw(u64_from(wrapper.gas_limit, overflow_checks),
               wrapper.fee.amount_per_gas_unit)

\* ------------------------------------------------------------------ state

VARIABLES
    overflow_checks,  \* the build: TRUE with overflow checks (debug), FALSE without
    phase,            \* "tx": transaction-level charges; "vps": predicates run
                      \* and are merged; "done": their gas was charged back
    txm,              \* the TxGasMeter
    vpm,              \* per predicate: st ("none", "live", "moved") and its VpGasMeter
    vps,              \* per predicate branch: its VpsGas
    agg,              \* per branch: "fresh", "root" (holds results), "merged" (merged away)
    gasFailed,        \* some set or merge returned an error
    last,             \* the last call: op, kind, id, arg, res, before, wrapped
    keys_changed,     \* the storage keys the transaction has written
    pre_state,        \* the Amount under each key before the transaction
    post_state,       \* the Amount under each key after it
    minter,           \* the post-state value under minter_key(IBC_TOKEN)
    verifiers,        \* the verifiers validate_tx was called with
    tx_data,          \* the data of the transaction: "none", "accepted", "rejected"
    ctx_gas,          \* the gas meter of the context of the multitoken predicate
    ret,              \* what validate_tx returned, "pending" before it ran
    wrapper,          \* the WrapperTx: its fee and gas_limit
    wret              \* the last call on the wrapper: op, arg, res, val, wrapped

gasVars == <<overflow_checks, phase, txm, vpm, vps, agg, gasFailed, last>>

multitokenVars ==
    <<keys_changed, pre_state, post_state, minter, verifiers, tx_data, ctx_gas, ret>>

wrapperVars == <<wrapper, wret>>

vars == <<gasVars, multitokenVars, wrapperVars>>

\* WrapperTx::new(fee, .., gas_limit, ..): the fields the fee and the refund
\* are computed from.
WrapperTx_new(amount_per_gas_unit, gas_limit) ==
    [fee |-> [amount_per_gas_unit |-> amount_per_gas_unit], gas_limit |-> gas_limit]

NoWrapperCall == [op |-> "none", arg |-> 0, res |-> Ok, val |-> 0, wrapped |-> FALSE]

WrapperCall(op, arg, r) ==
    [op |-> op, arg |-> arg, res |-> r.res, val |-> r.val, wrapped |-> r.wrapped]

NoCall == [op |-> "new", kind |-> "tx", id |-> 0, arg |-> 0, res |-> Ok,
           before |-> 0, wrapped |-> FALSE]

Call(op, kind, id, arg, res, before, wrapped) ==
    [op |-> op, kind |-> kind, id |-> id, arg |-> arg, res |-> res,
     before |-> before, wrapped |-> wrapped]

\* A panic unwinds the thread that applies the transaction.
Running == last.res # Panic

Init ==
    /\ overflow_checks \in BOOLEAN
    /\ phase = "tx"
    /\ \E limit \in Limits : txm = TxGasMeter_new(limit)
    /\ vpm = [i \in VpIds |-> [st |-> "none", m |-> VpGasMeter_new_from_tx_meter(TxGasMeter_new(0))]]
    /\ vps = [i \in VpIds |-> VpsGas_default]
    /\ agg = [i \in VpIds |-> "fresh"]
    /\ gasFailed = FALSE
    /\ last = NoCall
    /\ keys_changed = {}
    /\ pre_state = [key \in AmountKeys |-> 0]
    /\ post_state = [key \in AmountKeys |-> 0]
    /\ minter = None
    /\ verifiers = {}
    /\ tx_data = "none"
    /\ ctx_gas = VpGasMeter_new_from_tx_meter(TxGasMeter_new(0))
    /\ ret = "pending"
    /\ wrapper = WrapperTx_new(0, GasLimit(0))
    /\ wret = NoWrapperCall

\* ---------------------------------------------- transaction-level charges

TxCharge(op, arg, r) ==
    /\ txm' = r.m
    /\ last' = Call(op, "tx", 0, arg, r.res, txm.transaction_gas, FALSE)
    /\ UNCHANGED <<overflow_checks, phase, vpm, vps, agg, gasFailed>>
    /\ UNCHANGED <<multitokenVars, wrapperVars>>

TxConsume ==
    /\ Running /\ phase = "tx"
    /\ \E gas \in Amounts :
         TxCharge("consume", gas, TxGasMeter_consume(txm, gas))

TxAddTxSizeGas ==
    /\ Running /\ phase = "tx"
    /\ \E len \in SizeLens :
         TxCharge("add_tx_size_gas", len, TxGasMeter_add_tx_size_gas(txm, len))

TxAddCompilingGas ==
    /\ Running /\ phase = "tx"
    /\ \E len \in CodeLens, tracing \in BOOLEAN :
         TxCharge("add_compiling_gas", len,
                  add_compiling_gas("tx", txm, len, overflow_checks, tracing))

TxAddWasmLoadFromStorageGas ==
    /\ Running /\ phase = "tx"
    /\ \E len \in CodeLens, tracing \in BOOLEAN :
         TxCharge("add_wasm_load_from_storage_gas", len,
                  add_wasm_load_from_storage_gas("tx", txm, len, overflow_checks, tracing))

\* ------------------------------------------------------- predicate meters

\* A predicate is triggered: its meter is spawned from the transaction meter.
Spawn(i) ==
    /\ Running /\ phase \in {"tx", "vps"}
    /\ vpm[i].st = "none" /\ agg[i] = "fresh"
    /\ vpm' = [vpm EXCEPT ![i] = [st |-> "live", m |-> VpGasMeter_new_from_tx_meter(txm)]]
    /\ phase' = "vps"
    /\ last' = Call("new_from_tx_meter", "vp", i, 0, Ok, 0, FALSE)
    /\ UNCHANGED <<overflow_checks, txm, vps, agg, gasFailed>>
    /\ UNCHANGED <<multitokenVars, wrapperVars>>

\* A predicate meter that writes its charges through to the transaction meter.
VpCharge_through_tx(i, op, arg, r) ==
    /\ vpm' = [vpm EXCEPT ![i].m = r.m]
    /\ txm' = TxGasMeter_consume(txm, arg).m
    /\ last' = Call(op, "vp", i, arg, r.res, vpm[i].m.current_gas, FALSE)
    /\ UNCHANGED <<overflow_checks, phase, vps, agg, gasFailed>>
    /\ UNCHANGED <<multitokenVars, wrapperVars>>

VpCharge(i, op, arg, r) ==
    /\ vpm' = [vpm EXCEPT ![i].m = r.m]
    /\ last' = Call(op, "vp", i, arg, r.res, vpm[i].m.current_gas, FALSE)
    /\ UNCHANGED <<overflow_checks, phase, txm, vps, agg, gasFailed>>
    /\ UNCHANGED <<multitokenVars, wrapperVars>>

VpConsume(i) ==
    /\ Running /\ vpm[i].st = "live"
    /\ \E gas \in Amounts :
         VpCharge(i, "consume", gas, VpGasMeter_consume(vpm[i].m, gas))

\* The code of a predicate is compiled or loaded before the predicate runs.
VpAddCompilingGas(i) ==
    /\ Running /\ vpm[i].st = "live" /\ vpm[i].m.current_gas = 0
    /\ \E len \in CodeLens, tracing \in BOOLEAN :
         VpCharge(i, "add_compiling_gas", len,
                  add_compiling_gas("vp", vpm[i].m, len, overflow_checks, tracing))

VpAddWasmLoadFromStorageGas(i) ==
    /\ Running /\ vpm[i].st = "live" /\ vpm[i].m.current_gas = 0
    /\ \E len \in CodeLens, tracing \in BOOLEAN :
         VpCharge(i, "add_wasm_load_from_storage_gas", len,
                  add_wasm_load_from_storage_gas("vp", vpm[i].m, len, overflow_checks, tracing))

\* ------------------------------------------------------------- aggregation

\* The predicate returned: its meter is moved into set on the fresh
\* aggregator of its branch (the debug assertions of set hold).
SetVp(i) ==
    /\ Running /\ vpm[i].st = "live" /\ agg[i] = "fresh"
    /\ vps[i] = VpsGas_default
    /\ LET r == VpsGas_set(vps[i], vpm[i].m, overflow_checks) IN
         /\ vps' = [vps EXCEPT ![i] = r.v]
         /\ gasFailed' = (gasFailed \/ r.res # Ok)
         /\ last' = Call("set", "vps", i, vpm[i].m.current_gas, r.res, 0, r.wrapped)
    /\ vpm' = [vpm EXCEPT ![i].st = "moved"]
    /\ agg' = [agg EXCEPT ![i] = "root"]
    /\ UNCHANGED <<overflow_checks, phase, txm>>
    /\ UNCHANGED <<multitokenVars, wrapperVars>>

\* Branch j is merged into branch i.  Branch i holds results already, or is
\* the empty accumulator of a fold (the slot of a predicate never triggered).
Merge(i, j) ==
    /\ Running /\ i # j /\ phase = "vps"
    /\ agg[j] = "root"
    /\ agg[i] = "root" \/ (agg[i] = "fresh" /\ vpm[i].st = "none")
    /\ LET r == VpsGas_merge(vps[i], vps[j], txm, overflow_checks) IN
         /\ vps' = [vps EXCEPT ![i] = r.v, ![j] = r.other]
         /\ gasFailed' = (gasFailed \/ r.res # Ok)
         /\ last' = Call("merge", "vps", i, j, r.res, 0, r.wrapped)
    /\ agg' = [agg EXCEPT ![i] = "root", ![j] = "merged"]
    /\ UNCHANGED <<overflow_checks, phase, txm, vpm>>
    /\ UNCHANGED <<multitokenVars, wrapperVars>>

\* Every branch has finished and was merged into branch i (the join): the
\* merged gas of the predicates is charged back to the transaction.
Joined(i) ==
    /\ agg[i] = "root"
    /\ \A j \in VpIds \ {i} : agg[j] = "merged" \/ (agg[j] = "fresh" /\ vpm[j].st = "none")

AddVpsGas(i) ==
    /\ Running /\ phase = "vps" /\ Joined(i)
    /\ \E tracing \in BOOLEAN :
         LET r == TxGasMeter_add_vps_gas(txm, vps[i], overflow_checks, tracing) IN
           /\ txm' = r.m
           /\ last' = Call("add_vps_gas", "tx", 0, i, r.res, txm.transaction_gas, r.wrapped)
    /\ phase' = "done"
    /\ UNCHANGED <<overflow_checks, vpm, vps, agg, gasFailed>>
    /\ UNCHANGED <<multitokenVars, wrapperVars>>

Next ==
    \/ TxConsume
    \/ TxAddTxSizeGas
    \/ TxAddCompilingGas
    \/ TxAddWasmLoadFromStorageGas
    \/ \E i \in VpIds : Spawn(i)
    \/ \E i \in VpIds : VpConsume(i)
    \/ \E i \in VpIds : VpAddCompilingGas(i)
    \/ \E i \in VpIds : VpAddWasmLoadFromStorageGas(i)
    \/ \E i \in VpIds : SetVp(i)
    \/ \E i, j \in VpIds : Merge(i, j)
    \/ \E i \in VpIds : AddVpsGas(i)

Spec == Init /\ [][Next]_vars

\* --------------------------------------------- the meters, every amount

\* One transaction meter and the predicate meter spawned from it, charged
\* with every amount of the u64.
AnyTxConsume ==
    /\ Running /\ phase = "tx"
    /\ \E gas \in 0 .. U64_MAX :
         TxCharge("consume", gas, TxGasMeter_consume(txm, gas))

AnyVpConsume ==
    /\ Running /\ vpm[1].st = "live"
    /\ \E gas \in 0 .. U64_MAX :
         VpCharge(1, "consume", gas, VpGasMeter_consume(vpm[1].m, gas))

NextCharge ==
    \/ AnyTxConsume
    \/ Spawn(1)
    \/ AnyVpConsume

\* consume has no unchecked arithmetic: the build makes no difference.
InitCharge == Init /\ ~overflow_checks

SpecCharge == InitCharge /\ [][NextCharge]_vars

\* ------------------------------------------- the multitoken predicate

\* How many keys a transaction writes.
TxWrites == {1, 2, 3}

\* The Amount under a changed key before and after: every difference, up
\* from 0 or down to 0.
Changes ==
    {c \in (0 .. AMOUNT_MAX) \X (0 .. AMOUNT_MAX) : c[1] = 0 \/ c[2] = 0}

\* What the post-state holds under minter_key(IBC_TOKEN).
Minters == {None, Some(IBC), Some(ESTABLISHED)}

\* The verifiers of the transaction.
VerifierSets == {{ESTABLISHED}, {IBC, ESTABLISHED}}

TxData == {"none", "accepted", "rejected"}

\* The calls of validate_tx: <<gas limit, minter, verifiers, tx_data>>,
\* with gas for every read, or with gas for less than three reads.
ValidateTxInputs ==
    ({U64_MAX} \X Minters \X VerifierSets \X TxData)
      \cup ({0, 1, 2} \X Minters \X {{IBC, ESTABLISHED}} \X {"accepted"})

\* The transaction changes the Amount under a balance or minted key.
ChangeAmount(key, change) ==
    /\ ret = "pending"
    /\ key \in AmountKeys \ keys_changed
    /\ Cardinality(keys_changed) + 1 \in TxWrites
    /\ keys_changed' = keys_changed \cup {key}
    /\ pre_state' = [pre_state EXCEPT ![key] = change[1]]
    /\ post_state' = [post_state EXCEPT ![key] = change[2]]
    /\ UNCHANGED <<minter, verifiers, tx_data, ctx_gas, ret>>
    /\ UNCHANGED <<gasVars, wrapperVars>>

\* The transaction writes a minter key, a parameter key, an unrecognised
\* key under #Multitoken or a key of another address.
WriteKey(key) ==
    /\ ret = "pending"
    /\ key \in (Keys \ AmountKeys) \ keys_changed
    /\ Cardinality(keys_changed) + 1 \in TxWrites
    /\ keys_changed' = keys_changed \cup {key}
    /\ UNCHANGED <<pre_state, post_state, minter, verifiers, tx_data, ctx_gas, ret>>
    /\ UNCHANGED <<gasVars, wrapperVars>>

\* validate_tx returned r.
Returned(r) == ret' = r.res /\ ctx_gas' = r.gas

\* The multitoken predicate is run on the transaction.
ValidateTx ==
    /\ ret = "pending"
    /\ \E input \in ValidateTxInputs :
         /\ minter' = input[2]
         /\ verifiers' = input[3]
         /\ tx_data' = input[4]
         /\ Returned(validate_tx([pre |-> pre_state, post |-> post_state,
                                  minter |-> input[2], verifiers |-> input[3],
                                  tx_data |-> input[4]],
                                 keys_changed,
                                 VpGasMeter_new_from_tx_meter(TxGasMeter_new(input[1]))))
    /\ UNCHANGED <<keys_changed, pre_state, post_state>>
    /\ UNCHANGED <<gasVars, wrapperVars>>

NextMultitoken ==
    \/ \E key \in AmountKeys, change \in Changes : ChangeAmount(key, change)
    \/ \E key \in Keys \ AmountKeys : WriteKey(key)
    \/ ValidateTx

\* The gas meters of the transaction play no part: one build, one limit.
InitMultitoken == Init /\ ~overflow_checks /\ txm.tx_gas_limit = U64_MAX

SpecMultitoken == InitMultitoken /\ [][NextMultitoken]_vars

\* ----------------------------------------------------- the wrapper
\* The fee per gas unit of a wrapper.
Fees == {0, 1, 3, U64_MAX}

\* A wrapper is made with the gas limit deserialized from a raw u64 (serde
\* from = "u64", amount.into()).
NewFromRaw ==
    /\ wret.op = "none"
    /\ \E amount_per_gas_unit \in Fees, amount \in 0 .. U64_MAX :
         /\ wrapper' = WrapperTx_new(amount_per_gas_unit, GasLimit_from(amount))
         /\ wret' = WrapperCall("from_u64", amount, Returned_u64(0, FALSE))
    /\ UNCHANGED <<gasVars, multitokenVars>>

\* A wrapper is made with the gas limit parsed or Borsh-deserialized: the
\* input is the multiplier.
NewFromMultiplier ==
    /\ wret.op = "none"
    /\ \E amount_per_gas_unit \in Fees, multiplier \in 0 .. U64_MAX :
         /\ wrapper' = WrapperTx_new(amount_per_gas_unit, GasLimit(multiplier))
         /\ wret' = WrapperCall("from_str", multiplier, Returned_u64(0, FALSE))
    /\ UNCHANGED <<gasVars, multitokenVars>>

\* A call on the wrapper that returned r.
CallWrapper(op, arg, r) ==
    /\ wret' = WrapperCall(op, arg, r)
    /\ UNCHANGED <<wrapper, gasVars, multitokenVars>>

\* The gas limit is serialized (serde into = "u64"), or read as the limit of
\* the transaction meter.
IntoU64 ==
    /\ wret.op # "none" /\ wret.res # Panic
    /\ CallWrapper("into_u64", 0, u64_from(wrapper.gas_limit, overflow_checks))

RefundAmount ==
    /\ wret.op # "none" /\ wret.res # Panic
    /\ \E used_gas \in 0 .. U64_MAX :
         CallWrapper("refund_amount", used_gas,
                     GasLimit_refund_amount(wrapper.gas_limit, used_gas, overflow_checks))

GetTxFee ==
    /\ wret.op # "none" /\ wret.res # Panic
    /\ CallWrapper("get_tx_fee", 0, WrapperTx_get_tx_fee(wrapper, overflow_checks))

NextWrapper ==
    \/ NewFromRaw
    \/ NewFromMultiplier
    \/ IntoU64
    \/ RefundAmount
    \/ GetTxFee

\* The gas meters play no part; the build does.
InitWrapper == Init /\ txm.tx_gas_limit = U64_MAX

SpecWrapper == InitWrapper /\ [][NextWrapper]_vars

\* ------------------------------------------------------------------ claims

LastConsume(kind) == last.op = "consume" /\ last.kind = kind

\* The predicate meter of the last call.
LastVp == vpm[last.id].m

\* C1: a consume whose additions do not overflow but push the running total
\* (initial_gas + current_gas for a predicate meter) strictly above the limit
\* returns TransactionGasExceededError and leaves the running total at its
\* previous value plus the full amount.
C1_ExceededChargesInFull ==
    /\ LastConsume("tx") /\ last.before + last.arg <= U64_MAX
         /\ last.before + last.arg > txm.tx_gas_limit
       => last.res = TransactionGasExceededError
            /\ txm.transaction_gas = last.before + last.arg
    /\ LastConsume("vp")
         /\ LastVp.initial_gas + last.before + last.arg <= U64_MAX
         /\ LastVp.initial_gas + last.before + last.arg > LastVp.tx_gas_limit
       => last.res = TransactionGasExceededError
            /\ LastVp.current_gas = last.before + last.arg

\* A predicate meter with a baseline, still within the limit, was charged
\* over the limit and keeps the charge.
C1_Witness ==
    /\ LastConsume("vp") /\ last.res = TransactionGasExceededError
    /\ last.arg > 0 /\ last.before > 0 /\ LastVp.initial_gas > 0
    /\ LastVp.initial_gas + last.before <= LastVp.tx_gas_limit
    /\ LastVp.current_gas = last.before + last.arg

\* C2: a consume for which a 64-bit addition overflows (running total +
\* amount; for a predicate meter also initial_gas + current_gas + amount)
\* returns GasOverflow, whatever the limit.
C2_OverflowIsGasOverflow ==
    /\ LastConsume("tx") /\ last.before + last.arg > U64_MAX
       => last.res = GasOverflow
    /\ LastConsume("vp")
         /\ LastVp.initial_gas + last.before + last.arg > U64_MAX
       => last.res = GasOverflow

\* An overflowing charge on a transaction meter that is already above a
\* limit below u64::MAX.
C2_Witness ==
    /\ LastConsume("tx") /\ last.res = GasOverflow
    /\ last.before + last.arg > U64_MAX
    /\ txm.tx_gas_limit < U64_MAX /\ last.before > txm.tx_gas_limit

\* C3: whenever consume returns GasOverflow the running total is what it was
\* before the call.
C3_OverflowKeepsTotal ==
    /\ LastConsume("tx") /\ last.res = GasOverflow
       => txm.transaction_gas = last.before
    /\ LastConsume("vp") /\ last.res = GasOverflow
       => LastVp.current_gas = last.before

\* C4: when g1 + g2 does not overflow and baseline + g1 + g2 <= limit,
\* charging g1 then g2 succeeds both times and leaves the running total of
\* one successful charge of g1 + g2 on an identical meter.  The last call
\* is the charge of g2 (last.arg) on a meter whose running total was
\* last.before; g1 is every amount that may have led there.
C4_SplitChargeEqualsSingle ==
    \A g1 \in 0 .. last.before :
      LET g2 == last.arg IN
      /\ LastConsume("tx") /\ g1 + g2 <= U64_MAX
           /\ (last.before - g1) + g1 + g2 <= txm.tx_gas_limit
         => LET m0 == [txm EXCEPT !.transaction_gas = last.before - g1]
                first == TxGasMeter_consume(m0, g1)
                single == TxGasMeter_consume(m0, g1 + g2) IN
            /\ first.res = Ok /\ first.m.transaction_gas = last.before
            /\ last.res = Ok
            /\ single.res = Ok /\ single.m = txm
      /\ LastConsume("vp") /\ g1 + g2 <= U64_MAX
           /\ LastVp.initial_gas + (last.before - g1) + g1 + g2 <= LastVp.tx_gas_limit
         => LET m0 == [LastVp EXCEPT !.current_gas = last.before - g1]
                first == VpGasMeter_consume(m0, g1)
                single == VpGasMeter_consume(m0, g1 + g2) IN
            /\ first.res = Ok /\ first.m.current_gas = last.before
            /\ last.res = Ok
            /\ single.res = Ok /\ single.m = LastVp

\* A predicate meter with a baseline was charged twice, with success, up to
\* its limit exactly.
C4_Witness ==
    /\ LastConsume("vp") /\ last.res = Ok /\ last.arg > 0 /\ last.before > 0
    /\ LastVp.initial_gas > 0
    /\ LastVp.current_gas = last.before + last.arg
    /\ LastVp.initial_gas + LastVp.current_gas = LastVp.tx_gas_limit

\* The predicates whose meter was handed to set.
Finished == {j \in VpIds : vpm[j].st = "moved"}

\* The gas usage predicate j handed to set.
Usage(j) == vpm[j].m.current_gas

RECURSIVE SumUsage(_)
SumUsage(S) == IF S = {} THEN 0
               ELSE LET j == CHOOSE k \in S : TRUE IN Usage(j) + SumUsage(S \ {j})

MaxUsage(S) == IF S = {} THEN 0
               ELSE Usage(CHOOSE j \in S : \A k \in S : Usage(k) <= Usage(j))

\* max(u1..uN) + (sum(u1..uN) - max(u1..uN)) / 10
Formula(S) == MaxUsage(S) + (SumUsage(S) - MaxUsage(S)) \div PARALLEL_GAS_DIVIDER

\* The billed total of an aggregator in this build.
Billed(v) == VpsGas_get_current_gas(v, overflow_checks)

\* C5: the aggregators of the finished predicates, each filled by one set,
\* were folded by merge in some order and grouping into branch i: the billed
\* total get_current_gas returns is max(u) + (sum(u) - max(u)) / 10.
C5_BilledTotalIsFormula ==
    \A i \in VpIds :
      Joined(i) /\ Billed(vps[i]).res = Ok
      => Billed(vps[i]).val = Formula(Finished)

\* a.merge(b): self afterwards.
Merged(a, b) == VpsGas_merge(a, b, txm, overflow_checks).v

\* a.merge(b): other afterwards.
MergedOther(a, b) == VpsGas_merge(a, b, txm, overflow_checks).other

\* The aggregators of the state, and the empty one.
Aggregators == {vps[i] : i \in VpIds} \cup {VpsGas_default}

\* C6: for the aggregators a, b, c reached by set and merge, the billed
\* total of a.merge(b) is that of b.merge(a), and the billed total of
\* (a.merge(b)).merge(c) is that of a.merge(b.merge(c)).  Aggregators change
\* in set and merge only.
C6_MergeCommutesAndAssociates ==
    last.op \in {"set", "merge"} =>
      \A a, b \in Aggregators :
        /\ Billed(Merged(a, b)) = Billed(Merged(b, a))
        /\ \A c \in Aggregators :
             Billed(Merged(Merged(a, b), c)) = Billed(Merged(a, Merged(b, c)))

\* Two aggregators built by set and merge whose two merges order rest
\* differently and bill more than the max alone.
C6_Witness ==
    /\ last.op = "merge"
    /\ \E i, j \in VpIds :
         /\ agg[i] = "root" /\ agg[j] = "root" /\ i # j
         /\ Len(vps[i].rest) > 0
         /\ Merged(vps[i], vps[j]).rest # Merged(vps[j], vps[i]).rest
         /\ Billed(Merged(vps[i], vps[j])).res = Ok
         /\ Billed(Merged(vps[i], vps[j])).val > Merged(vps[i], vps[j]).max.val

\* The ids of S in increasing order.
RECURSIVE InOrder(_)
InOrder(S) == IF S = {} THEN << >>
              ELSE LET j == CHOOSE k \in S : \A l \in S : k <= l IN
                   <<j>> \o InOrder(S \ {j})

\* The aggregator of predicate j alone: set on a fresh VpsGas.
SetAlone(j) == VpsGas_set(VpsGas_default, vpm[j].m, overflow_checks)

\* The aggregators of the predicates ids, folded left to right into acc.
RECURSIVE FoldMerge(_, _, _)
FoldMerge(acc, failed, ids) ==
    IF ids = << >> THEN [v |-> acc, failed |-> failed]
    ELSE LET s == SetAlone(Head(ids))
             r == VpsGas_merge(acc, s.v, txm, overflow_checks) IN
         FoldMerge(r.v, failed \/ s.res # Ok \/ r.res # Ok, Tail(ids))

\* The finished predicates completing in the order of their ids.
InIdOrder ==
    LET ids == InOrder(Finished)
        s == SetAlone(Head(ids)) IN
    FoldMerge(s.v, s.res # Ok, Tail(ids))

\* C7: whatever the interleaving of the predicates and the order in which
\* their results were set and merged, once all are joined the billed gas and
\* the gas outcome (some set or merge failed) are those of the run in which
\* the predicates complete in the order of their ids.  The transaction meter
\* is the one the predicates were spawned from until their gas is charged back.
C7_OrderIndependent ==
    \A i \in VpIds :
      phase = "vps" /\ Joined(i) /\ Finished # {}
      => /\ Billed(vps[i]) = Billed(InIdOrder.v)
         /\ gasFailed = InIdOrder.failed

\* C8: no gas-accounting operation panics or wraps: every overflow is the
\* value Err(GasOverflow).
C8_NoPanicNoWrap == last.res # Panic /\ ~last.wrapped

\* C9: after a consume, add_tx_size_gas or add_vps_gas on the transaction
\* meter that returns Ok, transaction_gas <= tx_gas_limit.
C9_OkWithinLimit ==
    /\ last.kind = "tx"
    /\ last.op \in {"consume", "add_tx_size_gas", "add_vps_gas"}
    /\ last.res = Ok
    => txm.transaction_gas <= txm.tx_gas_limit

\* The merged gas of the predicates was charged back with success on top of
\* the transaction's own gas.
C9_Witness ==
    /\ last.kind = "tx" /\ last.op = "add_vps_gas" /\ last.res = Ok
    /\ last.before > 0 /\ txm.transaction_gas > last.before
    /\ txm.transaction_gas <= txm.tx_gas_limit

WithinLimit(m) == m.initial_gas + m.current_gas <= m.tx_gas_limit

\* C10: every state of a VpGasMeter satisfies
\* initial_gas + current_gas <= gas_limit.
C10_VpAlwaysWithinLimit ==
    \A i \in VpIds : vpm[i].st # "none" => WithinLimit(vpm[i].m)

\* C10 (amended): initial_gas + current_gas <= gas_limit holds right after
\* new_from_tx_meter from a transaction meter within its limit, and after
\* every consume that returns Ok.
C10_VpWithinLimitAfterOk ==
    /\ last.kind = "vp" /\ last.op = "new_from_tx_meter"
         /\ txm.transaction_gas <= txm.tx_gas_limit
       => WithinLimit(LastVp)
    /\ LastConsume("vp") /\ last.res = Ok
       => WithinLimit(LastVp)

\* A predicate meter with a baseline was charged with success and has room left.
C10_Witness ==
    /\ LastConsume("vp") /\ last.res = Ok /\ last.arg > 0
    /\ LastVp.initial_gas > 0
    /\ LastVp.initial_gas + LastVp.current_gas < LastVp.tx_gas_limit

\* C7, C5 without the unchecked sum: as long as no sum of rest wrapped or
\* panicked the order does not show.
NeverWrapped ==
    \A i \in VpIds : SumSeq(vps[i].rest) <= U64_MAX

C7_OrderIndependentUnlessWrapped ==
    \A i \in VpIds :
      phase = "vps" /\ Joined(i) /\ Finished # {} /\ NeverWrapped
      => /\ Billed(vps[i]) = Billed(InIdOrder.v)
         /\ gasFailed = InIdOrder.failed

C5_BilledTotalIsFormulaUnlessWrapped ==
    \A i \in VpIds :
      Joined(i) /\ Billed(vps[i]).res = Ok /\ NeverWrapped
      => Billed(vps[i]).val = Formula(Finished)

\* C11: predicate gas reaches the transaction meter only through the
\* aggregator: new_from_tx_meter, the charges on a VpGasMeter, set and merge
\* leave the TxGasMeter as it is, and once predicates run only add_vps_gas
\* changes transaction_gas; no step changes tx_gas_limit.
C11_OnlyAddVpsGasChangesTx ==
    [][/\ last'.kind \in {"vp", "vps"} => txm' = txm
       /\ phase # "tx" /\ txm'.transaction_gas # txm.transaction_gas
          => last'.op = "add_vps_gas"
       /\ txm'.tx_gas_limit = txm.tx_gas_limit]_vars

\* A merge failed on the limit with predicate gas in both aggregators, and
\* the transaction meter still holds only the transaction's own gas, within
\* the limit.
C11_Witness ==
    /\ last.op = "merge" /\ last.res = TransactionGasExceededError
    /\ vps[last.id].max.some /\ vps[last.id].max.val > 0
    /\ vps[last.id].rest # << >>
    /\ txm.transaction_gas > 0 /\ txm.transaction_gas <= txm.tx_gas_limit

\* The amount add_vps_gas is to charge for an aggregator: max.unwrap_or(0)
\* plus the sum of rest divided once, over the integers.
ParallelAmount(v) ==
    unwrap_or_default(v.max) + (SumSeq(v.rest) \div PARALLEL_GAS_DIVIDER)

\* What a charge of amount leaves and returns under the rules of consume.
ChargedLikeConsume(before, after, res, amount) ==
    IF before.transaction_gas + amount > U64_MAX
    THEN res = GasOverflow /\ after = before
    ELSE /\ after = [before EXCEPT !.transaction_gas = @ + amount]
         /\ res = IF after.transaction_gas > after.tx_gas_limit
                  THEN TransactionGasExceededError ELSE Ok

\* C12: add_vps_gas(vps) charges the transaction meter exactly
\* vps.max.unwrap_or(0) + sum(vps.rest) / 10, the division truncating and
\* applied once to the sum, under the overflow and limit rules of consume,
\* and leaves the aggregator unchanged.
C12_AddVpsGasChargesFormula ==
    [][last'.op = "add_vps_gas"
       => /\ ChargedLikeConsume(txm, txm', last'.res, ParallelAmount(vps[last'.arg]))
          /\ vps' = vps]_vars

\* C12 where the sum of rest fits the u64 and no tracing subscriber unwraps
\* an overflow: the code charges the formula.
C12_AddVpsGasChargesFormulaUnlessWrapped ==
    [][last'.op = "add_vps_gas" /\ last'.res # Panic
         /\ SumSeq(vps[last'.arg].rest) <= U64_MAX
       => /\ ChargedLikeConsume(txm, txm', last'.res, ParallelAmount(vps[last'.arg]))
          /\ vps' = vps]_vars

\* The sum of rest is divided once: two demoted usages of 15 are charged
\* 30 / 10 = 3, not 1 + 1.
C12_Reached ==
    /\ last.op = "add_vps_gas" /\ last.res = Ok
    /\ Len(vps[last.arg].rest) = 2
    /\ txm.transaction_gas = last.before + ParallelAmount(vps[last.arg])
    /\ SumSeq(vps[last.arg].rest) \div PARALLEL_GAS_DIVIDER
         > (vps[last.arg].rest[1] \div PARALLEL_GAS_DIVIDER)
             + (vps[last.arg].rest[2] \div PARALLEL_GAS_DIVIDER)

\* C13: set(predicate_meter) on a fresh aggregator leaves
\* max = Some(predicate_meter.current_gas) and rest empty, and returns
\* TransactionGasExceededError exactly when
\* initial_gas + current_gas > gas_limit, otherwise Ok.
C13_SetOnFresh ==
    last.op = "set"
    => /\ vps[last.id] = [max |-> Some(LastVp.current_gas), rest |-> << >>]
       /\ last.res = IF LastVp.initial_gas + LastVp.current_gas > LastVp.tx_gas_limit
                     THEN TransactionGasExceededError ELSE Ok

\* C13 for a predicate meter whose initial_gas + current_gas fits the u64,
\* as every consume that does not overflow leaves it.
C13_SetOnFreshUnlessOverflow ==
    last.op = "set" /\ LastVp.initial_gas + LastVp.current_gas <= U64_MAX
    => /\ vps[last.id] = [max |-> Some(LastVp.current_gas), rest |-> << >>]
       /\ last.res = IF LastVp.initial_gas + LastVp.current_gas > LastVp.tx_gas_limit
                     THEN TransactionGasExceededError ELSE Ok

\* set on a meter with a baseline whose usage fits the u64 with it and is
\* above the limit.
C13_Reached ==
    /\ last.op = "set" /\ last.res = TransactionGasExceededError
    /\ LastVp.initial_gas > 0 /\ LastVp.current_gas > 0
    /\ LastVp.initial_gas + LastVp.current_gas <= U64_MAX

\* The consumed gas of the transaction meter when the predicates were
\* spawned: predicates are spawned once the transaction's own charges are
\* over, and add_vps_gas records the value it started from.
SpawnBaseline == IF phase = "done" THEN last.before ELSE txm.transaction_gas

\* C14: get_tx_gas on a VpGasMeter returns the consumed gas of the
\* transaction meter as it was at new_from_tx_meter, whatever was consumed
\* on the predicate meter since; get_tx_gas on a TxGasMeter returns the
\* total consumed so far; get_gas_limit returns the same limit on both.
C14_GetTxGasIsBaseline ==
    /\ \A i \in VpIds :
         vpm[i].st # "none"
         => /\ GasMetering_get_tx_gas("vp", vpm[i].m) = SpawnBaseline
            /\ GasMetering_get_gas_limit("vp", vpm[i].m)
                 = GasMetering_get_gas_limit("tx", txm)
    /\ last.kind = "tx" /\ last.op # "new" /\ last.res \in {Ok, TransactionGasExceededError}
       => GasMetering_get_tx_gas("tx", txm) >= last.before
    /\ last.kind = "tx" /\ last.op = "consume" /\ last.res # GasOverflow
       => GasMetering_get_tx_gas("tx", txm) = last.before + last.arg

\* A predicate meter spawned at a baseline above 0 has consumed gas, also
\* past the limit, and the transaction meter has moved on since by the
\* charge of the predicates' gas.
C14_Witness ==
    /\ phase = "done" /\ txm.transaction_gas > last.before
    /\ \E i \in VpIds :
         /\ vpm[i].st = "moved" /\ vpm[i].m.current_gas > 0
         /\ vpm[i].m.initial_gas > 0
         /\ GasMetering_get_tx_gas("vp", vpm[i].m) = last.before

\* ------------------------------------------ claims, multitoken predicate

\* validate_tx has returned.
Validated == ret # "pending"

\* No storage read of the validation ran out of gas.
GasSufficed == WithinLimit(ctx_gas)

\* By how much the transaction changed the Amount under a key.
Diff(key) == post_state[key] - pre_state[key]

\* C15: validate_tx returns Ok(true) for every transaction whose changed
\* keys are exactly the balance keys of X and Y for one token, X's balance
\* down by A and Y's up by the same A, for every A and either kind of
\* token (the reads having gas).
C15_TransferAccepted ==
    \A token \in Tokens, a \in 0 .. AMOUNT_MAX :
      /\ Validated /\ GasSufficed
      /\ keys_changed = {balance_key(token, "X"), balance_key(token, "Y")}
      /\ Diff(balance_key(token, "X")) = -a
      /\ Diff(balance_key(token, "Y")) = a
      => ret = OkTrue

\* A transfer of the largest Amount of the IBC-origin token, which has no
\* minter and whose bridge is no verifier, was accepted.
C15_Witness ==
    /\ ret = OkTrue
    /\ keys_changed = {balance_key(IBC_TOKEN, "X"), balance_key(IBC_TOKEN, "Y")}
    /\ Diff(balance_key(IBC_TOKEN, "X")) = -AMOUNT_MAX
    /\ Diff(balance_key(IBC_TOKEN, "Y")) = AMOUNT_MAX
    /\ minter = None /\ IBC \notin verifiers

\* The increase and the decrease of the Amount under a changed key.
Increase(key) == IF key \in keys_changed /\ Diff(key) > 0 THEN Diff(key) ELSE 0

Decrease(key) == IF key \in keys_changed /\ Diff(key) < 0 THEN -Diff(key) ELSE 0

\* The total increase and decrease of the balances of a token.
BalanceIncrease(token) ==
    Increase(balance_key(token, "X")) + Increase(balance_key(token, "Y"))

BalanceDecrease(token) ==
    Decrease(balance_key(token, "X")) + Decrease(balance_key(token, "Y"))

\* The transaction changed balance keys of the token and nothing else.
OnlyBalancesOf(token) ==
    /\ keys_changed # {}
    /\ keys_changed \subseteq {balance_key(token, owner) : owner \in Owners}

\* C16: validate_tx returns Ok(false) for every transaction that changes
\* only balance keys of one token, with a total increase that differs from
\* the total decrease (the reads having gas).
C16_UnbalancedRejected ==
    \A token \in Tokens :
      /\ Validated /\ GasSufficed /\ OnlyBalancesOf(token)
      /\ BalanceIncrease(token) # BalanceDecrease(token)
      => ret = OkFalse

\* C16 (amended): such a transaction is never accepted: validate_tx returns
\* Ok(false), or the error "Overflowed in balance check" when the increases
\* (or the decreases) add up to more than the largest Amount.
C16_UnbalancedRejectedOrOverflowed ==
    \A token \in Tokens :
      /\ Validated /\ GasSufficed /\ OnlyBalancesOf(token)
      /\ BalanceIncrease(token) # BalanceDecrease(token)
      => ret = IF \/ BalanceIncrease(token) > AMOUNT_MAX
                  \/ BalanceDecrease(token) > AMOUNT_MAX
               THEN ErrOverflowed ELSE OkFalse

\* Y received more than X lost, and the transaction was rejected.
C16_Witness ==
    /\ ret = OkFalse /\ OnlyBalancesOf(NAM)
    /\ Diff(balance_key(NAM, "X")) = -1
    /\ Diff(balance_key(NAM, "Y")) = 2

\* Two balances went up by more than the largest Amount together.
C16_Overflowed ==
    /\ ret = ErrOverflowed /\ OnlyBalancesOf(NAM)
    /\ BalanceIncrease(NAM) > AMOUNT_MAX

\* The transaction mints a of the IBC-origin token to owner: the balance
\* and the minted supply both go up by a, and the minter key may be
\* written with them.
Mints(owner, a) ==
    /\ {balance_key(IBC_TOKEN, owner), minted_balance_key(IBC_TOKEN)}
         \subseteq keys_changed
    /\ keys_changed \subseteq {balance_key(IBC_TOKEN, owner),
                                minted_balance_key(IBC_TOKEN),
                                minter_key(IBC_TOKEN)}
    /\ Diff(balance_key(IBC_TOKEN, owner)) = a
    /\ Diff(minted_balance_key(IBC_TOKEN)) = a

\* C17: for an IBC-origin token whose balance and minted supply both go up
\* by the same amount, validate_tx returns Ok(true) when the minter in the
\* post-state is the bridge and the bridge is a verifier, and Ok(false)
\* when the bridge is no verifier, when there is no minter, or when the
\* minter is another address, verifier or not (the reads having gas).
C17_MintNeedsBridge ==
    \A owner \in Owners, a \in 1 .. AMOUNT_MAX :
      Validated /\ GasSufficed /\ Mints(owner, a)
      => ret = OkBool(minter = Some(IBC) /\ IBC \in verifiers)

\* A mint with the minter key written, the bridge being the minter and a
\* verifier, was accepted.
C17_Witness ==
    /\ ret = OkTrue /\ Mints("Y", AMOUNT_MAX)
    /\ minter_key(IBC_TOKEN) \in keys_changed
    /\ minter = Some(IBC) /\ IBC \in verifiers

\* A mint whose minter is a verifier but not the bridge was rejected.
C17_RejectedOtherMinter ==
    /\ ret = OkFalse /\ Mints("Y", AMOUNT_MAX)
    /\ minter = Some(ESTABLISHED) /\ ESTABLISHED \in verifiers

\* A mint by the bridge that is no verifier was rejected.
C17_RejectedNoVerifier ==
    /\ ret = OkFalse /\ Mints("X", 1)
    /\ minter = Some(IBC) /\ IBC \notin verifiers

\* The changed keys under #Multitoken that are no balance, minted, minter
\* or parameter key.
Unrecognised == {key \in keys_changed : key.kind = "multitoken"}

\* Where a key comes in the iteration of keys_changed.
Rank(key) == CHOOSE n \in 1 .. Len(KeyOrder) : KeyOrder[n] = key

\* C18: whenever keys_changed holds an unrecognised key under #Multitoken,
\* validate_tx returns Ok(false), whatever the other changed keys and
\* their values (the reads having gas).
C18_UnrecognisedKeyRejected ==
    Validated /\ GasSufficed /\ Unrecognised # {} => ret = OkFalse

\* C18, the part that matters: such a transaction is never accepted.
C18_UnrecognisedKeyNotAccepted ==
    Validated /\ Unrecognised # {} => ret # OkTrue

\* A transaction with an unrecognised key is not accepted unless a parameter
\* key comes before every unrecognised key in the iteration.
C18_NotAcceptedUnlessParameterFirst ==
    /\ Validated /\ Unrecognised # {}
    /\ ~ \E p \in keys_changed :
           /\ is_any_token_parameter_key(p).some
           /\ \A key \in Unrecognised : Rank(p) < Rank(key)
    => ret # OkTrue

\* A transaction with a parameter key, the data of an accepted proposal
\* and an unrecognised key was accepted.
C18_Accepted ==
    /\ ret = OkTrue /\ Unrecognised # {}
    /\ parameter_key(NAM) \in keys_changed /\ tx_data = "accepted"

\* The context validate_tx ran in, and its gas meter before the first read.
Ctx ==
    [pre |-> pre_state, post |-> post_state, minter |-> minter,
     verifiers |-> verifiers, tx_data |-> tx_data]

CtxGasAtStart == VpGasMeter_new_from_tx_meter(TxGasMeter_new(ctx_gas.tx_gas_limit))

\* validate_tx went through all of keys_changed: no iteration returned.
ScanFinished ==
    /\ Validated
    /\ ScanKeys(ScanStart(CtxGasAtStart), Iter(keys_changed), Ctx).res = "next"

\* The tokens with an entry in one of the four maps: those with a changed
\* balance or minted key.
Touched == {key.token : key \in keys_changed \cap AmountKeys}

\* The conservation law for one token, over the integers.
Conserved(token) ==
    BalanceIncrease(token) - BalanceDecrease(token)
      = Increase(minted_balance_key(token)) - Decrease(minted_balance_key(token))

\* C19: when the scan finishes without an early return, validate_tx returns
\* true exactly when, for every token in one of the four maps on its own,
\* inc_change - dec_change = inc_mint - dec_mint over the integers
\* (inc_change + dec_mint = inc_mint + dec_change); the three-way branch on
\* unsigned amounts agrees with that equation for all values (a property of
\* the closure alone, evaluated where nothing is written yet).
C19_TrueIffConservedPerToken ==
    /\ ScanFinished => ret = OkBool(\A token \in Touched : Conserved(token))
    /\ keys_changed = {}
       => \A a, b, c, d \in 0 .. AMOUNT_MAX :
            /\ TokenBalanced(a, b, c, d) <=> (a - b = c - d)
            /\ TokenBalanced(a, b, c, d) <=> (a + d = c + b)

\* A burn: balance and minted supply of the IBC-origin token both went down
\* by the largest Amount, and the last branch accepted it.
C19_Witness ==
    /\ ScanFinished /\ ret = OkTrue
    /\ BalanceDecrease(IBC_TOKEN) = AMOUNT_MAX
    /\ Decrease(minted_balance_key(IBC_TOKEN)) = AMOUNT_MAX

\* A surplus of one token next to an equal deficit of the other was rejected.
C19_NoOffsetAcrossTokens ==
    /\ ScanFinished /\ ret = OkFalse
    /\ BalanceIncrease(NAM) = 1 /\ BalanceDecrease(NAM) = 0
    /\ BalanceDecrease(IBC_TOKEN) = 1 /\ BalanceIncrease(IBC_TOKEN) = 0
    /\ keys_changed \cap AmountKeys \subseteq
         {balance_key(token, owner) : token \in Tokens, owner \in Owners}

\* A burn with unequal differences (balance down by 2, supply down by 1)
\* was rejected.
C19_UnequalBurnRejected ==
    /\ ScanFinished /\ ret = OkFalse
    /\ BalanceDecrease(IBC_TOKEN) = 2 /\ BalanceIncrease(IBC_TOKEN) = 0
    /\ Decrease(minted_balance_key(IBC_TOKEN)) = 1

\* The gas one storage read is charged.
ReadGas == READ_BYTES * STORAGE_ACCESS_GAS_PER_BYTE

\* C20: a storage read that runs out of gas during the validation, in the
\* scan or inside is_valid_minter, makes validate_tx return the error at
\* that read: it never returns Ok(false) or Ok(true) then, and it reads
\* nothing more; it returns that error in no other case.
C20_ReadFailureIsError ==
    Validated
    => /\ ~GasSufficed <=> ret = ErrGas
       /\ ~GasSufficed
          => ctx_gas.initial_gas + ctx_gas.current_gas - ReadGas
               <= ctx_gas.tx_gas_limit

\* The read of the minter inside is_valid_minter ran out of gas after
\* read_pre and read_post of the minted key had gas.
C20_Witness ==
    /\ ret = ErrGas
    /\ keys_changed = {minted_balance_key(IBC_TOKEN)}
    /\ ctx_gas.tx_gas_limit = 2 * ReadGas
    /\ ctx_gas.current_gas = 3 * ReadGas

\* read_post of a balance key ran out of gas.
C20_ReadPostFailed ==
    /\ ret = ErrGas
    /\ keys_changed = {balance_key(NAM, "X")}
    /\ ctx_gas.tx_gas_limit = ReadGas
    /\ ctx_gas.current_gas = 2 * ReadGas

\* read_pre of the second changed key ran out of gas while an unrecognised
\* key came after it.
C20_ReadPreFailed ==
    /\ ret = ErrGas
    /\ keys_changed = {balance_key(NAM, "X"), balance_key(NAM, "Y"),
                       multitoken_key("z")}
    /\ ctx_gas.tx_gas_limit = 2 * ReadGas

\* The smallest multiple of GAS_LIMIT_RESOLUTION that is >= x.
NextMultiple(x) ==
    CHOOSE n \in 0 .. (x + GAS_LIMIT_RESOLUTION) :
      /\ n % GAS_LIMIT_RESOLUTION = 0 /\ n >= x
      /\ \A k \in x .. (n - 1) : k % GAS_LIMIT_RESOLUTION # 0

\* The raw limits the gas limit of the wrapper is made from.
RawLimits == {x \in 0 .. U64_MAX : GasLimit_from(x) = wrapper.gas_limit}

\* C21: for every raw limit x of the u64, x converted to a GasLimit and
\* back to u64 is the smallest multiple of GAS_LIMIT_RESOLUTION that is
\* >= x (x itself when it is a multiple), and the result never wraps.
C21_RoundsUpToNextMultiple ==
    wret.op = "into_u64" =>
      \A x \in RawLimits :
        wret.res = Ok /\ ~wret.wrapped /\ wret.val = NextMultiple(x)

\* C21 as long as the next multiple is a u64.
C21_RoundsUpUnlessOverflow ==
    wret.op = "into_u64" =>
      \A x \in RawLimits :
        NextMultiple(x) <= U64_MAX
        => wret.res = Ok /\ ~wret.wrapped /\ wret.val = NextMultiple(x)

\* A raw limit above the last multiple of the resolution came back wrapped,
\* below itself.
C21_Wrapped ==
    /\ wret.op = "into_u64" /\ wret.res = Ok /\ wret.wrapped
    /\ \E x \in RawLimits : wret.val < x

\* A raw limit that is no multiple came back as the next one.
C21_Reached ==
    /\ wret.op = "into_u64" /\ wret.res = Ok /\ ~wret.wrapped
    /\ \E x \in RawLimits : x % GAS_LIMIT_RESOLUTION # 0 /\ wret.val > x

\* The limit a GasLimit grants.
Granted(limit) == limit.multiplier * GAS_LIMIT_RESOLUTION

\* The refund of used_gas under a granted limit.
Refund(granted, used_gas) ==
    IF used_gas >= granted THEN 0
    ELSE IF used_gas >= granted - GAS_LIMIT_RESOLUTION THEN granted - used_gas
    ELSE GAS_LIMIT_RESOLUTION

\* C22: for every GasLimit (every multiplier, 0 too) and every used_gas,
\* refund_amount(used_gas) is 0 when used_gas >= the granted limit,
\* limit - used_gas when limit - GAS_LIMIT_RESOLUTION <= used_gas < limit,
\* and GAS_LIMIT_RESOLUTION when used_gas is lower still; it never
\* underflows.
C22_RefundAtMostOneUnit ==
    wret.op = "refund_amount" =>
      /\ wret.res = Ok /\ ~wret.wrapped
      /\ wret.val = Refund(Granted(wrapper.gas_limit), wret.arg)

\* C22 for a multiplier that is not 0 and whose granted limit is a u64.
C22_RefundUnlessZeroOrOverflow ==
    /\ wret.op = "refund_amount"
    /\ wrapper.gas_limit.multiplier > 0
    /\ Granted(wrapper.gas_limit) <= U64_MAX
    => /\ wret.res = Ok /\ ~wret.wrapped
       /\ wret.val = Refund(Granted(wrapper.gas_limit), wret.arg)

\* GasLimit 0 refunds a whole unit for gas that was never granted.
C22_Underflowed ==
    /\ wret.op = "refund_amount" /\ wret.res = Ok /\ wret.wrapped
    /\ wrapper.gas_limit.multiplier = 0 /\ wret.arg > 0
    /\ wret.val = GAS_LIMIT_RESOLUTION

\* The refund of the last unit of a limit of several units.
C22_Reached ==
    /\ wret.op = "refund_amount" /\ wret.res = Ok /\ ~wret.wrapped
    /\ wrapper.gas_limit.multiplier > 1
    /\ wret.val > 0 /\ wret.val < GAS_LIMIT_RESOLUTION
    /\ wret.val = Granted(wrapper.gas_limit) - wret.arg

\* C23: a GasLimit converted to its raw u64 amount and back (serialized and
\* deserialized) is the original GasLimit, and the raw amount of a GasLimit
\* with multiplier m is m * GAS_LIMIT_RESOLUTION.
C23_RoundTrip ==
    wret.op = "into_u64" =>
      /\ wret.res = Ok
      /\ wret.val = Granted(wrapper.gas_limit)
      /\ GasLimit_from(wret.val) = wrapper.gas_limit

\* C23 for a GasLimit whose raw amount is a u64.
C23_RoundTripUnlessOverflow ==
    wret.op = "into_u64" /\ Granted(wrapper.gas_limit) <= U64_MAX =>
      /\ wret.res = Ok
      /\ wret.val = Granted(wrapper.gas_limit)
      /\ GasLimit_from(wret.val) = wrapper.gas_limit

\* A parsed GasLimit was serialized to a wrapped amount that deserializes
\* to another GasLimit.
C23_Lost ==
    /\ wret.op = "into_u64" /\ wret.res = Ok /\ wret.wrapped
    /\ GasLimit_from(wret.val) # wrapper.gas_limit

\* A GasLimit of several units was serialized and comes back as it was.
C23_Reached ==
    /\ wret.op = "into_u64" /\ wret.res = Ok
    /\ wrapper.gas_limit.multiplier > 1
    /\ wret.val = Granted(wrapper.gas_limit)
    /\ GasLimit_from(wret.val) = wrapper.gas_limit

\* gas_limit * fee_per_gas_unit of the wrapper.
Fee == Granted(wrapper.gas_limit) * wrapper.fee.amount_per_gas_unit

\* C24: get_tx_fee returns gas_limit * fee_per_gas_unit when the product
\* fits in 64 bits and the error OverflowingFee otherwise, never a wrapped
\* value, also when multiplier * GAS_LIMIT_RESOLUTION itself is no u64.
C24_FeeOrOverflowingFee ==
    wret.op = "get_tx_fee" =>
      /\ ~wret.wrapped
      /\ IF Fee <= U64_MAX THEN wret.res = Ok /\ wret.val = Fee
         ELSE wret.res = OverflowingFee

\* C24 for a gas limit whose raw amount is a u64.
C24_FeeUnlessLimitOverflows ==
    wret.op = "get_tx_fee" /\ Granted(wrapper.gas_limit) <= U64_MAX =>
      /\ ~wret.wrapped
      /\ IF Fee <= U64_MAX THEN wret.res = Ok /\ wret.val = Fee
         ELSE wret.res = OverflowingFee

\* A fee that is no u64 was returned as a small amount.
C24_WrappedFee ==
    /\ wret.op = "get_tx_fee" /\ wret.res = Ok /\ wret.wrapped
    /\ Fee > U64_MAX /\ wret.val < wrapper.fee.amount_per_gas_unit

\* A fee was computed; another one overflowed with the error.
C24_Reached ==
    /\ wret.op = "get_tx_fee" /\ wret.res = Ok /\ wret.val = Fee
    /\ wrapper.gas_limit.multiplier > 1 /\ wrapper.fee.amount_per_gas_unit > 1

C24_Overflowing ==
    /\ wret.op = "get_tx_fee" /\ wret.res = OverflowingFee
    /\ Granted(wrapper.gas_limit) <= U64_MAX /\ Fee > U64_MAX

\* C25: consume(amount) returns Ok exactly when no addition overflows and
\* the new total (transaction_gas for the transaction meter, initial_gas +
\* current_gas for the predicate meter) is <= the gas limit; a charge that
\* makes the total equal to the limit succeeds, and so does consume(0) on a
\* meter within its limit.
C25_OkIffWithinLimit ==
    /\ LastConsume("tx")
       => (last.res = Ok
             <=> /\ last.before + last.arg <= U64_MAX
                 /\ last.before + last.arg <= txm.tx_gas_limit)
    /\ LastConsume("vp")
       => (last.res = Ok
             <=> /\ LastVp.initial_gas + last.before + last.arg <= U64_MAX
                 /\ LastVp.initial_gas + last.before + last.arg <= LastVp.tx_gas_limit)

\* A predicate meter with a baseline was charged up to a limit below
\* u64::MAX, and the charge succeeded.
C25_Witness ==
    /\ LastConsume("vp") /\ last.res = Ok /\ last.arg > 0
    /\ LastVp.initial_gas > 0 /\ LastVp.tx_gas_limit < U64_MAX
    /\ LastVp.initial_gas + last.before + last.arg = LastVp.tx_gas_limit

\* consume(0) on a transaction meter at its limit succeeded.
C25_ZeroCharge ==
    /\ LastConsume("tx") /\ last.res = Ok /\ last.arg = 0
    /\ txm.transaction_gas = txm.tx_gas_limit

\* The cost per byte of a per-byte helper.
CostPerByte(op) ==
    IF op = "add_tx_size_gas" THEN TX_SIZE_GAS_PER_BYTE
    ELSE IF op = "add_compiling_gas" THEN COMPILE_GAS_PER_BYTE
    ELSE STORAGE_ACCESS_GAS_PER_BYTE

PerByteHelpers ==
    {"add_tx_size_gas", "add_compiling_gas", "add_wasm_load_from_storage_gas"}

\* What the last call charges: the amount of a consume, bytes_len *
\* cost_per_byte of a per-byte helper.
Charge == IF last.op = "consume" THEN last.arg ELSE last.arg * CostPerByte(last.op)

\* The total the last call would leave, in the integers.
NewTotal ==
    IF last.kind = "tx" THEN last.before + Charge
    ELSE LastVp.initial_gas + last.before + Charge

\* C26: overflow detection runs before the limit check: a charge that
\* overflows 64 bits and would exceed the gas limit (also on a meter that
\* is above its limit already) returns GasOverflow, not
\* TransactionGasExceeded, for both meters and for the per-byte helpers
\* whose multiplication overflows.
C26_OverflowBeforeLimitCheck ==
    /\ last.op \in {"consume"} \cup PerByteHelpers
    /\ last.kind \in {"tx", "vp"}
    /\ NewTotal > U64_MAX
    => last.res = GasOverflow

\* The multiplication of add_tx_size_gas overflowed on a transaction meter
\* that is above its limit.
C26_Witness ==
    /\ last.op = "add_tx_size_gas" /\ last.res = GasOverflow
    /\ last.arg * TX_SIZE_GAS_PER_BYTE > U64_MAX
    /\ last.before > txm.tx_gas_limit

\* A predicate meter whose own gas is a u64 and whose total is not.
C26_TotalOverflowed ==
    /\ LastConsume("vp") /\ last.res = GasOverflow
    /\ last.before + last.arg <= U64_MAX
    /\ LastVp.initial_gas + last.before + last.arg > LastVp.tx_gas_limit

\* The step merges branch j into branch i.
IsMerge(i, j) == agg[j] = "root" /\ agg'[j] = "merged" /\ last'.id = i

\* How often the value x is held by the aggregator v, as max or in rest.
Holds(v, x) ==
    Cardinality({k \in 1 .. Len(v.rest) : v.rest[k] = x})
      + (IF v.max.some /\ v.max.val = x THEN 1 ELSE 0)

\* The smaller max of two aggregators that both have one, demoted to rest.
Demoted(v, other) ==
    IF v.max.some /\ other.max.some
    THEN IF v.max.val < other.max.val THEN <<v.max.val>> ELSE <<other.max.val>>
    ELSE << >>

\* C27: merge(other, tx_meter) keeps the larger of the two max as self.max,
\* pushes the smaller one onto self.rest, takes other's max when self.max is
\* None and appends all of other.rest to self.rest: the values held by self
\* after the merge, max and rest together, are those held by self and by
\* other before it, each as often.
C27_MergeKeepsEveryUsage ==
    [][\A i, j \in VpIds :
         IsMerge(i, j) =>
           /\ vps'[i].max =
                IF ~vps[i].max.some THEN vps[j].max
                ELSE IF ~vps[j].max.some THEN vps[i].max
                ELSE IF vps[i].max.val < vps[j].max.val THEN vps[j].max
                ELSE vps[i].max
           /\ vps'[i].rest = vps[i].rest \o Demoted(vps[i], vps[j]) \o vps[j].rest
           /\ \A x \in 0 .. U64_MAX :
                Holds(vps'[i], x) = Holds(vps[i], x) + Holds(vps[j], x)]_vars

\* A merge left three usages in one aggregator, the largest as max, the rest
\* in the order the merges met them.
C27_Witness ==
    /\ last.op = "merge"
    /\ Len(vps[last.id].rest) = 2 /\ vps[last.id].max.some
    /\ vps[last.id].rest[1] > vps[last.id].rest[2] /\ vps[last.id].rest[2] > 0
    /\ vps[last.id].max.val > vps[last.id].rest[1]

\* The billed total of an aggregator in the integers: max + sum(rest) / 10.
BilledTotal(v) ==
    unwrap_or_default(v.max) + (SumSeq(v.rest) \div PARALLEL_GAS_DIVIDER)

\* The aggregator the last merge left.
LastMerged == vps[last.id]

\* No addition of the last merge overflowed.
MergeAddsUp ==
    /\ SumSeq(LastMerged.rest) <= U64_MAX
    /\ txm.transaction_gas + BilledTotal(LastMerged) <= U64_MAX

\* C28: merge(other, tx_meter) returns TransactionGasExceeded exactly when
\* the consumed gas of tx_meter plus the billed total of the merged
\* aggregator is strictly greater than the gas limit of tx_meter (and no
\* addition overflows), and Ok when that sum is <= the limit.
C28_MergeChecksLimit ==
    last.op = "merge" /\ MergeAddsUp =>
      IF txm.transaction_gas + BilledTotal(LastMerged) > txm.tx_gas_limit
      THEN last.res = TransactionGasExceededError
      ELSE last.res = Ok

\* A merge on top of the transaction's own gas reached the limit exactly
\* and returned Ok.
C28_Witness ==
    /\ last.op = "merge" /\ last.res = Ok /\ MergeAddsUp
    /\ txm.transaction_gas > 0 /\ Len(LastMerged.rest) > 0
    /\ BilledTotal(LastMerged) > LastMerged.max.val
    /\ txm.transaction_gas + BilledTotal(LastMerged) = txm.tx_gas_limit

\* A merge went over the limit by the share of the parallel runs.
C28_Exceeded ==
    /\ last.op = "merge" /\ last.res = TransactionGasExceededError /\ MergeAddsUp
    /\ txm.transaction_gas + BilledTotal(LastMerged) > txm.tx_gas_limit

\* Every predicate that ran stayed within the limit: each of its consume
\* and its set returned Ok.
EachWithinBounds == \A j \in VpIds : vpm[j].st # "none" => WithinLimit(vpm[j].m)

\* The last call combined the predicates and was refused for the limit.
CombiningExceeded ==
    /\ last.op \in {"merge", "add_vps_gas"}
    /\ last.res = TransactionGasExceededError

\* The aggregator the last merge or add_vps_gas billed.
Combined == IF last.op = "merge" THEN vps[last.id] ELSE vps[last.arg]

\* The baseline of the last merge or add_vps_gas.
Baseline == IF last.op = "merge" THEN txm.transaction_gas ELSE last.before

\* C29: the predicates of a transaction each stay within bounds (every
\* consume and every set returns Ok) and combining them fails all the same:
\* the merge or the add_vps_gas that follows returns TransactionGasExceeded,
\* and it does so because baseline + max + sum(rest) / 10 exceeds the limit.
C29_CombinedMayExceed ==
    EachWithinBounds /\ CombiningExceeded /\ ~last.wrapped
    => Baseline + BilledTotal(Combined) > txm.tx_gas_limit

\* Two predicates within bounds whose merge is refused.
C29_Witness ==
    /\ EachWithinBounds /\ CombiningExceeded /\ last.op = "merge"
    /\ Baseline + Combined.max.val <= txm.tx_gas_limit
    /\ \A k \in 1 .. Len(Combined.rest) : Baseline + Combined.rest[k] <= txm.tx_gas_limit
    /\ Baseline + BilledTotal(Combined) > txm.tx_gas_limit

\* The charge-back that follows the refused merge is refused as well.
C29_ChargeBackRefused ==
    /\ EachWithinBounds /\ CombiningExceeded /\ last.op = "add_vps_gas"
    /\ Baseline + BilledTotal(Combined) > txm.tx_gas_limit

\* The running total of the meter of the last call, after it.
TotalAfter == IF last.kind = "tx" THEN txm.transaction_gas ELSE LastVp.current_gas

\* What consume(gas) gives on the meter of the last call as it was before.
ConsumeBefore(gas) ==
    IF last.kind = "tx"
    THEN LET r == TxGasMeter_consume([txm EXCEPT !.transaction_gas = last.before], gas) IN
         [res |-> r.res, total |-> r.m.transaction_gas]
    ELSE LET r == VpGasMeter_consume([LastVp EXCEPT !.current_gas = last.before], gas) IN
         [res |-> r.res, total |-> r.m.current_gas]

\* C30: the per-byte helpers charge bytes_len * cost_per_byte, 10 per byte
\* for add_tx_size_gas, 1 per byte for add_compiling_gas and
\* add_wasm_load_from_storage_gas: they do what consume of that product
\* does; when the multiplication overflows 64 bits they return GasOverflow
\* and leave the running total of the meter as it was.
C30_PerByteCharge ==
    last.op \in PerByteHelpers /\ last.kind \in {"tx", "vp"} =>
      /\ CostPerByte(last.op) = (IF last.op = "add_tx_size_gas" THEN 10 ELSE 1)
      /\ IF last.arg * CostPerByte(last.op) > U64_MAX
         THEN last.res = GasOverflow /\ TotalAfter = last.before
         ELSE /\ last.res = ConsumeBefore(last.arg * CostPerByte(last.op)).res
              /\ TotalAfter = ConsumeBefore(last.arg * CostPerByte(last.op)).total
              /\ last.res \in {Ok, TransactionGasExceededError}
                 => TotalAfter = last.before + last.arg * CostPerByte(last.op)

\* The size of a transaction was charged at 10 per byte.
C30_Witness ==
    /\ last.op = "add_tx_size_gas" /\ last.res = Ok /\ last.arg > 0
    /\ txm.transaction_gas = last.before + 10 * last.arg

\* The multiplication overflowed on a meter that had gas already.
C30_MultiplicationOverflowed ==
    /\ last.op = "add_tx_size_gas" /\ last.res = GasOverflow
    /\ last.arg * TX_SIZE_GAS_PER_BYTE > U64_MAX
    /\ last.before > 0 /\ last.before <= txm.tx_gas_limit
    /\ txm.transaction_gas = last.before

\* The code of a predicate was charged at 1 per byte on top of a baseline.
C30_CodeCharged ==
    /\ last.op \in {"add_compiling_gas", "add_wasm_load_from_storage_gas"}
    /\ last.kind = "vp" /\ last.res = Ok /\ last.arg > 0
    /\ LastVp.initial_gas > 0 /\ LastVp.current_gas = last.arg

\* C31: the running total of a meter never decreases: after every operation
\* on the TxGasMeter (consume, add_tx_size_gas, add_vps_gas, the trait
\* helpers) and every charge on a VpGasMeter, successful or failed,
\* transaction_gas / current_gas is >= its value before.
C31_TotalNeverDecreases ==
    [][/\ txm'.transaction_gas >= txm.transaction_gas
       /\ \A i \in VpIds : vpm'[i].m.current_gas >= vpm[i].m.current_gas]_vars

\* The charge-back of the predicates was refused and raised the total of
\* the transaction meter all the same.
C31_Witness ==
    /\ last.kind = "tx" /\ last.op = "add_vps_gas"
    /\ last.res = TransactionGasExceededError
    /\ last.before > 0 /\ txm.transaction_gas > last.before

\* C32: the gas limit is fixed at creation: no operation of TxGasMeter,
\* VpGasMeter or VpsGas changes tx_gas_limit, and a VpGasMeter spawned by
\* new_from_tx_meter carries the limit of its transaction meter and starts
\* with current_gas = 0.
C32_LimitFixedAtCreation ==
    [][/\ txm'.tx_gas_limit = txm.tx_gas_limit
       /\ \A i \in VpIds :
            /\ vpm[i].st # "none"
               => vpm'[i].m.tx_gas_limit = vpm[i].m.tx_gas_limit
            /\ vpm[i].st = "none" /\ vpm'[i].st # "none"
               => /\ vpm'[i].m.tx_gas_limit = txm.tx_gas_limit
                  /\ vpm'[i].m.current_gas = 0]_vars

\* A predicate meter spawned from a transaction meter that had consumed gas
\* under a limit below u64::MAX, later charged over the limit.
C32_Witness ==
    /\ LastConsume("vp") /\ last.res = TransactionGasExceededError
    /\ LastVp.initial_gas > 0 /\ txm.tx_gas_limit < U64_MAX
    /\ LastVp.tx_gas_limit = txm.tx_gas_limit
    /\ LastVp.initial_gas <= txm.tx_gas_limit

\* The changed minted-supply and minter keys of tokens that are not
\* IBC-origin.
NonIbcMintKeys ==
    {key \in keys_changed :
       key.kind \in {"minted", "minter"} /\ ~IsIbcToken(key.token)}

\* A changed parameter key comes before key in the iteration.
ParameterKeyBefore(key) ==
    \E p \in keys_changed :
      is_any_token_parameter_key(p).some /\ Rank(p) < Rank(key)

\* C33: for every token that is not IBC-origin, a transaction whose
\* keys_changed holds the minted-supply key or the minter key of the token
\* is rejected, validate_tx returns Ok(false), whatever the minter in the
\* post-state, the verifiers and the differences of balances and supply.
C33_NonIbcMintRejected ==
    Validated /\ GasSufficed /\ NonIbcMintKeys # {} => ret = OkFalse

\* C33, the part that matters: such a transaction is never accepted.
C33_NonIbcMintNotAccepted ==
    Validated /\ NonIbcMintKeys # {} => ret # OkTrue

\* Such a transaction is rejected (or fails with an overflow of the sums)
\* unless a parameter key comes before its minted-supply and minter keys.
C33_RejectedUnlessParameterFirst ==
    /\ Validated /\ GasSufficed /\ NonIbcMintKeys # {}
    /\ \E key \in NonIbcMintKeys : ~ParameterKeyBefore(key)
    => ret \in {OkFalse, ErrOverflowed}

\* The minted supply of the native token went up with nothing to balance
\* it, and the transaction was accepted on the parameter key of another
\* token.
C33_Accepted ==
    /\ ret = OkTrue /\ tx_data = "accepted"
    /\ keys_changed = {parameter_key(DAI), minted_balance_key(NAM)}
    /\ Increase(minted_balance_key(NAM)) > 0

\* The same supply change without the parameter key was rejected.
C33_Rejected ==
    /\ ret = OkFalse /\ tx_data = "accepted"
    /\ keys_changed = {minted_balance_key(NAM)}
    /\ Increase(minted_balance_key(NAM)) > 0

\* The first changed parameter key in the iteration.
FirstParameterKey ==
    CHOOSE p \in keys_changed :
      /\ is_any_token_parameter_key(p).some
      /\ ~ParameterKeyBefore(p)

\* The changed keys that come before key in the iteration, in that order.
KeysBefore(key) ==
    SelectSeq(Iter(keys_changed), LAMBDA k : Rank(k) < Rank(key))

\* The scan up to the first parameter key.
ScanToParameterKey ==
    ScanKeys(ScanStart(CtxGasAtStart), KeysBefore(FirstParameterKey), Ctx)

\* The scan reached a parameter key: no iteration before it returned.
ReachedParameterKey ==
    /\ Validated
    /\ \E p \in keys_changed : is_any_token_parameter_key(p).some
    /\ ScanToParameterKey.res = "next"

\* C34: when the scan of keys_changed reaches a token-parameter key,
\* validate_tx returns at once with the result of the governance check,
\* true only for an accepted proposal and false when the transaction has
\* no data: the conservation check is not evaluated for the changes
\* accumulated so far and the keys later in the order are not inspected.
C34_ParameterKeyShortCircuits ==
    ReachedParameterKey =>
      /\ ret = is_valid_parameter(tx_data, ScanToParameterKey.acc.gas).res
      /\ ctx_gas = is_valid_parameter(tx_data, ScanToParameterKey.acc.gas).gas
      /\ ret = OkTrue => tx_data = "accepted"
      /\ tx_data = "none" => ret = OkFalse
      /\ GasSufficed => ret = OkBool(tx_data = "accepted")

\* An unbalanced balance change before the parameter key and an
\* unrecognised key after it, accepted on an accepted proposal.
C34_Witness ==
    /\ ReachedParameterKey /\ ret = OkTrue
    /\ keys_changed =
         {balance_key(NAM, "X"), parameter_key(NAM), multitoken_key("z")}
    /\ Increase(balance_key(NAM, "X")) > 0

\* The transaction has no data and a balanced transfer: rejected at the
\* parameter key.
C34_NoData ==
    /\ ReachedParameterKey /\ ret = OkFalse /\ tx_data = "none"
    /\ keys_changed =
         {balance_key(NAM, "X"), balance_key(NAM, "Y"), parameter_key(NAM)}
    /\ Conserved(NAM) /\ Increase(balance_key(NAM, "X")) > 0

\* The meter of the last call was above its limit before the call: an
\* earlier charge on it returned TransactionGasExceeded, or it is a
\* predicate meter spawned from a transaction meter above its limit.
WasAboveLimit ==
    IF last.kind = "tx" THEN last.before > txm.tx_gas_limit
    ELSE LastVp.initial_gas + last.before > LastVp.tx_gas_limit

C35_SpawnedAboveLimit ==
    /\ LastConsume("vp") /\ last.arg = 0 /\ last.before = 0
    /\ LastVp.initial_gas > LastVp.tx_gas_limit
    /\ last.res = TransactionGasExceededError

\* The charge-back on a transaction meter over its limit unwound.
C35_ChargeBackUnwound ==
    /\ last.kind = "tx" /\ last.op = "add_vps_gas" /\ WasAboveLimit
    /\ last.res = Panic

\* max is the largest usage the aggregator holds, and there is no rest
\* without a max.
MaxIsLargest(v) ==
    /\ ~v.max.some => v.rest = << >>
    /\ v.max.some => \A k \in 1 .. Len(v.rest) : v.max.val >= v.rest[k]

\* C36: in every aggregator reachable from an empty VpsGas by set on fresh
\* aggregators and by merge, rest is empty whenever max is None and max is
\* at least every element of rest: the value billed at full cost is the
\* largest usage seen.
C36_MaxIsLargestUsage == \A i \in VpIds : MaxIsLargest(vps[i])

\* A merge replaced the max of an aggregator by the larger max of the
\* other and demoted the old one, next to a usage demoted before.
C36_Witness ==
    /\ last.op = "merge"
    /\ LastMerged.max.some /\ Len(LastMerged.rest) >= 2
    /\ LastMerged.max = vps[last.arg].max
    /\ \E k \in 1 .. Len(LastMerged.rest) :
         LastMerged.rest[k] > 0 /\ LastMerged.rest[k] < LastMerged.max.val

\* The charge-back of the joined aggregator was the last call.
ChargedBack == last.kind = "tx" /\ last.op = "add_vps_gas"

\* C37: if the set calls and every merge of a transaction's predicate
\* results returned Ok against a transaction meter that was not charged in
\* between, then add_vps_gas of the final aggregator on that meter returns
\* Ok and leaves consumed = baseline + billed total <= gas_limit.
C37_ChargeBackSucceeds ==
    ChargedBack /\ ~gasFailed
    => /\ last.res = Ok
       /\ txm.transaction_gas = last.before + BilledTotal(vps[last.arg])
       /\ txm.transaction_gas <= txm.tx_gas_limit

\* C37 without the unchecked sum: as long as the sum of rest did not wrap,
\* the charge-back succeeds with the billed total.
C37_ChargeBackSucceedsUnlessWrapped ==
    ChargedBack /\ ~gasFailed /\ ~last.wrapped
    => /\ last.res = Ok
       /\ txm.transaction_gas = last.before + BilledTotal(vps[last.arg])
       /\ txm.transaction_gas <= txm.tx_gas_limit

\* What the code keeps of C37 in every build: after sets and merges that
\* all returned Ok the charge-back returns Ok within the limit.
C37_ChargeBackOk ==
    ChargedBack /\ ~gasFailed
    => last.res = Ok /\ txm.transaction_gas <= txm.tx_gas_limit

\* Every set and merge returned Ok on a wrapped sum and the charge-back
\* billed less than the billed total.
C37_Underbilled ==
    /\ ChargedBack /\ ~gasFailed /\ last.res = Ok
    /\ txm.transaction_gas < last.before + BilledTotal(vps[last.arg])

\* The merged gas of three predicates, two of them demoted, was charged
\* back on top of the gas of the transaction.
C37_Reached ==
    /\ ChargedBack /\ ~gasFailed /\ last.res = Ok /\ last.before > 0
    /\ Len(vps[last.arg].rest) = 2
    /\ txm.transaction_gas = last.before + BilledTotal(vps[last.arg])
    /\ BilledTotal(vps[last.arg]) > 0

\* The aggregator after other is merged into v once more.
MergedAgain(v, other) == VpsGas_merge(v, other, txm, overflow_checks).v

\* Merging other into v a second time pushes the max of other into rest
\* again, and the billed total rises by that usage over the divider.
CountedTwice(v, other) ==
    /\ other.max.some
    /\ MergedAgain(v, other).max = v.max
    /\ MergedAgain(v, other).rest = Append(v.rest, other.max.val)
    /\ BilledTotal(MergedAgain(v, other))
         >= BilledTotal(v) + (other.max.val \div PARALLEL_GAS_DIVIDER)

IsSet(i) == agg[i] = "fresh" /\ agg'[i] = "root" /\ last'.op = "set" /\ last'.id = i

\* The errors of the limit check.
GasErrors == {TransactionGasExceededError, GasOverflow}

\* The larger of the max of two aggregators, of which other has one.
LargerMax(v, other) ==
    IF v.max.some /\ v.max.val >= other.max.val THEN v.max ELSE other.max

\* C39: set and merge update the aggregator before they validate: when set
\* or merge returns TransactionGasExceeded or GasOverflow, self already
\* holds the new max, or the merged max and rest, and other.rest is already
\* drained: a failed merge is not rolled back.
C39_UpdatedBeforeValidated ==
    [][/\ \A i \in VpIds :
            IsSet(i) /\ last'.res \in GasErrors
            => vps'[i] = [max |-> Some(vpm[i].m.current_gas), rest |-> << >>]
       /\ \A i, j \in VpIds :
            IsMerge(i, j) /\ last'.res \in GasErrors
            => /\ vps'[i].max = LargerMax(vps[i], vps[j])
               /\ vps'[i].rest = vps[i].rest \o Demoted(vps[i], vps[j]) \o vps[j].rest
               /\ vps'[j].rest = << >>]_vars

\* A merge was refused for the limit and left the merged max and rest, the
\* rest of the other among it.
C39_Witness ==
    /\ last.op = "merge" /\ last.res = TransactionGasExceededError
    /\ LastMerged.max.some /\ Len(LastMerged.rest) >= 2
    /\ LastMerged.max = vps[last.arg].max
    /\ vps[last.arg].rest = << >>

\* A set was refused and left the usage of the predicate as max.
C39_SetRefused ==
    /\ last.op = "set" /\ last.res \in GasErrors
    /\ vps[last.id].max = Some(last.arg) /\ last.arg > 0

\* A merge failed on an overflow and left the merged aggregator.
C39_MergeOverflowed ==
    /\ last.op = "merge" /\ last.res = GasOverflow
    /\ Len(LastMerged.rest) >= 1

\* The orders in which the changed keys can be scanned.
ScanOrders ==
    {order \in [1 .. Cardinality(keys_changed) -> keys_changed] :
       \A m, n \in 1 .. Cardinality(keys_changed) : order[m] = order[n] => m = n}

\* What validate_tx returns when it scans the changed keys in that order.
VerdictIn(order) == AfterScan(ScanKeys(ScanStart(CtxGasAtStart), order, Ctx)).res

\* A token-parameter key was changed.
ParameterChanged == \E p \in keys_changed : is_any_token_parameter_key(p).some

C40_AcceptedInEveryOrder ==
    Validated => \A order \in ScanOrders : (VerdictIn(order) = OkTrue) = (ret = OkTrue)

\* C40 without the return at a parameter key: a transaction that changes no
\* parameter key is accepted in every order or in none.
C40_AcceptedInEveryOrderUnlessParameter ==
    Validated /\ ~ParameterChanged
    => \A order \in ScanOrders : (VerdictIn(order) = OkTrue) = (ret = OkTrue)

\* A transaction with an unrecognised key was accepted, which the scan
\* rejects when it meets that key before the parameter key.
C40_AcceptedByOrder ==
    /\ ret = OkTrue /\ Cardinality(keys_changed) >= 2
    /\ \E order \in ScanOrders : VerdictIn(order) = OkFalse

\* A transaction without a parameter key was rejected with false that
\* another order rejects with an error.
C40_FalseOrErrorByOrder ==
    /\ ret = OkFalse /\ ~ParameterChanged
    /\ \E order \in ScanOrders : VerdictIn(order) \in {ErrGas, ErrOverflowed}

\* A transaction of three changed keys was accepted, and is in every order.
C40_Reached ==
    /\ ret = OkTrue /\ ~ParameterChanged /\ Cardinality(keys_changed) >= 3
    /\ \A order \in ScanOrders : VerdictIn(order) = OkTrue
====
